---------------------------- MODULE Spec2Model ----------------------------
(***************************************************************************)
(* Model of the weather-analyst forecast pipeline: the Open-Meteo weather  *)
(* and marine fetchers (src/src/open_meteo_weather.py and                  *)
(* src/src/open_meteo_marine.py) as they are called by main (src/main.py), *)
(* the table and chart renderers and their colour functions                *)
(* (src/src/visualizer.py) and the Windy station lookup                    *)
(* (src/src/windy_stations.py).                                            *)
(*                                                                         *)
(* Specifications: Spec (the fetch loop), SpecProcess (one process_* call),*)
(* SpecColor (one colour function call), SpecTable (one renderer call),    *)
(* SpecNearest (one find_nearest_station call), SpecStation (one           *)
(* fetch_station_data call), SpecDirection (the direction functions),      *)
(* SpecAnyOrder (the steps of the fetch loop in any order), SpecMain (one  *)
(* run of main), SpecRender (render calls of one process).                 *)
(*                                                                         *)
(* Representation                                                          *)
(*   - a JSON value that may be null is a sequence of length <= 1:         *)
(*     <<>> is Python's None, <<n>> is the number n;                       *)
(*   - a dict is a function whose DOMAIN is its set of keys, so a missing  *)
(*     key is a key outside the DOMAIN;                                    *)
(*   - an ISO timestamp "YYYY-MM-DDTHH:00" is [date |-> d, hour |-> h]     *)
(*     with d a day number; `date in time_str` is equality of the dates;   *)
(*   - list positions are 1-based (Python position i is i+1 here);         *)
(*   - numbers are fixed point: wind in whole m/s, knots in 1/KnotScale    *)
(*     knot, rounded knots and temperatures and periods in tenths, raw     *)
(*     wave heights in millimetres, rounded wave heights in centimetres,   *)
(*     directions in whole degrees;                                        *)
(*   - an exception leaving a function is the value [exception |-> name].  *)
(***************************************************************************)
EXTENDS Integers, Sequences, FiniteSets, TLC

VARIABLES
    today,          \* the date datetime.now() gives inside process_weather_data
    target_date,    \* the date the caller asks the forecast for
    source,         \* which endpoint `payload` came from: "weather" | "marine"
                    \* (in the one-call specifications: which function is called)
    payload,        \* data = response.json() handed to a process_* function
                    \* (in the one-call specifications: the arguments of the call)
    out,            \* what the call gave: Pending, its return value or an exception
    pc,             \* position of the caller: "weather" | "marine" | "done" | "raised"
    idx,            \* position of the `for model in models` loop
    results,        \* fetch_weather_data's local `results`
    weather_data,   \* the mapping fetch_weather_data returned to the caller
    marine_data,    \* the entry fetch_marine_data returned to the caller
    MATPLOTLIB_AVAILABLE,   \* visualizer.py's module flag: did matplotlib import
    plt_style,      \* matplotlib's process-wide style: "default" until plt.style.use
    weather_keys    \* the insertion order of the keys of the weather mapping

vars == <<today, target_date, source, payload, out, pc, idx, results,
          weather_data, marine_data, MATPLOTLIB_AVAILABLE, plt_style, weather_keys>>

---------------------------------------------------------------------------
(* Bounds of the model *)

NumDays == 3        \* feeds start on day 1..NumDays
MaxFeedDays == 3    \* a feed covers up to MaxFeedDays*24 hourly samples
NumModels == 2      \* how many of WEATHER_MODELS a fetch_weather_data call gets
MaxTableModels == 3 \* how many model entries the mapping handed to a renderer has
MaxStations == 3    \* how many candidates a station list handed to find_nearest_station has
MaxColorSteps == 1000   \* a colour function is tried on MaxColorSteps+1 values
MaxDegrees == 360   \* the direction functions are tried on 0..MaxDegrees degrees
MaxMidnights == 1   \* how many times the date changes while the models are processed
MaxRenders == 3     \* how many render calls one process makes

---------------------------------------------------------------------------
(* Program constants *)

MS_TO_KNOTS == 194384      \* 1.94384, in units of 1/KnotScale
KnotScale == 100000
WindowStart == 8           \* 8 <= hour
WindowEnd == 18            \* hour <= 18
FallbackLimit == 11        \* len(daytime_indices) >= 11: break
default_max_distance_km == 50  \* find_nearest_station(..., max_distance_km: float = 50)

\* config.py LOCATION, in 1/10000 degree
LOCATION == [lat |-> 369710, lon |-> 274575]

WEATHER_MODELS == <<"ecmwf_ifs", "icon_eu", "meteofrance_seamless", "gfs_seamless">>

weather_hourly_params ==
    {"temperature_2m", "relative_humidity_2m", "precipitation_probability",
     "precipitation", "weather_code", "visibility", "wind_speed_10m",
     "wind_direction_10m", "wind_gusts_10m"}

marine_hourly_params ==
    {"wave_height", "wave_direction", "wave_period", "wind_wave_height",
     "wind_wave_direction", "wind_wave_period", "swell_wave_height",
     "swell_wave_direction", "swell_wave_period"}

directions == <<"N", "NE", "E", "SE", "S", "SW", "W", "NW">>

---------------------------------------------------------------------------
(* Python values and built-ins *)

None == <<>>
Num(n) == <<n>>
IsNone(v) == v = <<>>
Val(v) == v[1]
Pending == [pending |-> TRUE]
Raise(name) == [exception |-> name]
Raised(o) == "exception" \in DOMAIN o
IsError(e) == "error" \in DOMAIN e

\* `if v`: None and 0 are false
Truthy(v) == ~IsNone(v) /\ Val(v) # 0

\* round() of the non-negative rational n/d to an integer, ties to even
RoundHalfEvenNat(n, d) ==
    LET q == n \div d
        r == n % d
    IN  IF 2 * r < d THEN q
        ELSE IF 2 * r > d THEN q + 1
        ELSE IF q % 2 = 0 THEN q ELSE q + 1

PyRound(n, d) ==
    IF n >= 0 THEN RoundHalfEvenNat(n, d) ELSE 0 - RoundHalfEvenNat(0 - n, d)

RECURSIVE SumSeq(_)
SumSeq(s) == IF s = <<>> THEN 0 ELSE Val(Head(s)) + SumSeq(Tail(s))

RECURSIVE MaxSeq(_)
MaxSeq(s) ==
    IF Len(s) = 1 THEN Val(s[1])
    ELSE LET m == MaxSeq(Tail(s)) IN IF Val(s[1]) >= m THEN Val(s[1]) ELSE m

HasNone(s) == \E k \in 1..Len(s) : IsNone(s[k])

\* d.get(key, [])
GetList(d, key) == IF key \in DOMAIN d THEN d[key] ELSE <<>>


---------------------------------------------------------------------------
(* The hourly window: src/src/open_meteo_weather.py 74-91,                 *)
(* src/src/open_meteo_marine.py 65-71                                      *)

\* hour = int(time_str.split("T")[1].split(":")[0]);  8 <= hour <= 18
InWindow(time_str) == WindowStart <= time_str.hour /\ time_str.hour <= WindowEnd

\* for i, time_str in enumerate(times): if date in time_str: if 8 <= hour <= 18: append(i)
RECURSIVE DateIndices(_, _, _)
DateIndices(times, date, i) ==
    IF i > Len(times) THEN <<>>
    ELSE IF times[i].date = date /\ InWindow(times[i])
         THEN <<i>> \o DateIndices(times, date, i + 1)
         ELSE DateIndices(times, date, i + 1)

\* for i, time_str in enumerate(times): if 8 <= hour <= 18: append(i); if len >= 11: break
RECURSIVE FirstIndices(_, _, _)
FirstIndices(times, i, acc) ==
    IF i > Len(times) THEN acc
    ELSE IF InWindow(times[i])
         THEN IF Len(acc) + 1 >= FallbackLimit
              THEN Append(acc, i)
              ELSE FirstIndices(times, i + 1, Append(acc, i))
         ELSE FirstIndices(times, i + 1, acc)

\* process_weather_data's daytime_indices: the date is datetime.now()'s
weather_daytime_indices(times, now) ==
    LET exact == DateIndices(times, now, 1)
    IN  IF exact # <<>> THEN exact ELSE FirstIndices(times, 1, <<>>)

\* process_marine_data's daytime_indices: the date is the target_date argument
marine_daytime_indices(times, date) == DateIndices(times, date, 1)

\* [times[i] for i in daytime_indices if i < len(times)]
TimesAt(times, daytime_indices) ==
    LET kept == SelectSeq(daytime_indices, LAMBDA i : i <= Len(times))
    IN  [k \in 1..Len(kept) |-> times[kept[k]]]

\* weather get_values: [values[i] for i in daytime_indices if i < len(values)]
get_values(hourly, key, daytime_indices) ==
    LET values == GetList(hourly, key)
        kept == SelectSeq(daytime_indices, LAMBDA i : i <= Len(values))
    IN  [k \in 1..Len(kept) |-> values[kept[k]]]

\* taking the non-null samples of the whole array instead of the window's
marine_get_values_unwindowed(hourly, key, daytime_indices) ==
    SelectSeq(GetList(hourly, key), LAMBDA v : ~IsNone(v))

\* marine get_values: ... if i < len(values) and values[i] is not None
marine_get_values(hourly, key, daytime_indices) ==
    LET values == GetList(hourly, key)
        kept == SelectSeq(daytime_indices,
                          LAMBDA i : i <= Len(values) /\ ~IsNone(values[i]))
    IN  [k \in 1..Len(kept) |-> values[kept[k]]]

---------------------------------------------------------------------------
(* process_weather_data: src/src/open_meteo_weather.py 66-124              *)

\* [v * MS_TO_KNOTS if v else 0 for v in values]
to_knots(values) ==
    [k \in 1..Len(values) |->
        IF Truthy(values[k]) THEN Num(Val(values[k]) * MS_TO_KNOTS) ELSE Num(0)]

\* round(sum(xs) / len(xs), nd) if xs else 0; `unit` is how many units of xs
\* make one unit of the rounded result
avg_or_zero(xs, unit) ==
    IF xs # <<>> THEN Num(PyRound(SumSeq(xs), Len(xs) * unit)) ELSE Num(0)

\* round(max(xs), 1) if xs else 0
max_or_zero(xs, unit) ==
    IF xs # <<>> THEN Num(PyRound(MaxSeq(xs), unit)) ELSE Num(0)

\* sum() over a list holding None, or max() over a list of two or more
\* values one of which is None, raises TypeError; max([None]) is None
weather_summary_raises(temps, probs) ==
    \/ HasNone(temps)
    \/ Len(probs) >= 2 /\ HasNone(probs)

weather_summary(knots, gusts, temps, probs) ==
    [avg_wind_knots  |-> avg_or_zero(knots, KnotScale \div 10),
     max_wind_knots  |-> max_or_zero(knots, KnotScale \div 10),
     max_gust_knots  |-> max_or_zero(gusts, KnotScale \div 10),
     avg_temp        |-> avg_or_zero(temps, 1),
     max_precip_prob |-> IF probs = <<>> THEN Num(0)
                         ELSE IF HasNone(probs) THEN None
                         ELSE Num(MaxSeq(probs))]

process_weather_data(data, now) ==
    IF "hourly" \notin DOMAIN data THEN [error |-> <<"No hourly data">>]
    ELSE
    LET hourly == data["hourly"]
        times == GetList(hourly, "time")
        daytime_indices == weather_daytime_indices(times, now)
        gv(key) == get_values(hourly, key, daytime_indices)
        wind_speeds_knots == to_knots(gv("wind_speed_10m"))
        wind_gusts_knots == to_knots(gv("wind_gusts_10m"))
    IN  IF weather_summary_raises(gv("temperature_2m"), gv("precipitation_probability"))
        THEN Raise("TypeError")
        ELSE [times |-> TimesAt(times, daytime_indices),
              temperature |-> gv("temperature_2m"),
              humidity |-> gv("relative_humidity_2m"),
              precipitation_probability |-> gv("precipitation_probability"),
              precipitation |-> gv("precipitation"),
              weather_code |-> gv("weather_code"),
              visibility |-> gv("visibility"),
              wind_speed_knots |-> wind_speeds_knots,
              wind_direction |-> gv("wind_direction_10m"),
              wind_gusts_knots |-> wind_gusts_knots,
              summary |-> weather_summary(wind_speeds_knots, wind_gusts_knots,
                                          gv("temperature_2m"),
                                          gv("precipitation_probability"))]

---------------------------------------------------------------------------
(* process_marine_data: src/src/open_meteo_marine.py 57-111                *)

\* truncating where the code rounds
get_direction_name_floor(degrees) == directions[((degrees \div 45) % 8) + 1]

\* index = round(degrees / 45) % 8; directions[index]
get_direction_name(degrees) == directions[(PyRound(degrees, 45) % 8) + 1]

\* get_direction_name(round(sum(ds) / len(ds))) if ds else "N/A"
primary_swell_direction(swell_directions) ==
    IF swell_directions # <<>>
    THEN get_direction_name(PyRound(SumSeq(swell_directions), Len(swell_directions)))
    ELSE "N/A"

marine_summary(wave_heights, swell_heights, swell_periods, swell_directions) ==
    [avg_wave_height_m  |-> avg_or_zero(wave_heights, 10),
     max_wave_height_m  |-> max_or_zero(wave_heights, 10),
     avg_swell_height_m |-> avg_or_zero(swell_heights, 10),
     max_swell_height_m |-> max_or_zero(swell_heights, 10),
     avg_swell_period_s |-> avg_or_zero(swell_periods, 1),
     primary_swell_direction |-> primary_swell_direction(swell_directions)]

process_marine_data(data, date) ==
    IF "hourly" \notin DOMAIN data THEN [error |-> <<"No hourly data">>]
    ELSE
    LET hourly == data["hourly"]
        times == GetList(hourly, "time")
        daytime_indices == marine_daytime_indices(times, date)
        gv(key) == marine_get_values(hourly, key, daytime_indices)
    IN  IF daytime_indices = <<>> THEN [error |-> <<"No marine data for", date>>]
        ELSE [target_date |-> date,
              times |-> TimesAt(times, daytime_indices),
              wave_height_m |-> gv("wave_height"),
              wave_direction_deg |-> gv("wave_direction"),
              wave_period_s |-> gv("wave_period"),
              swell_wave_height_m |-> gv("swell_wave_height"),
              swell_wave_direction_deg |-> gv("swell_wave_direction"),
              swell_wave_period_s |-> gv("swell_wave_period"),
              wind_wave_height_m |-> gv("wind_wave_height"),
              summary |-> marine_summary(gv("wave_height"), gv("swell_wave_height"),
                                         gv("swell_wave_period"),
                                         gv("swell_wave_direction"))]


---------------------------------------------------------------------------
(* The responses the two endpoints may give.  A response body is built     *)
(* from a shape (which hours the feed covers) and from one defect (what is *)
(* null, short or missing in it).                                          *)

\* the sample of parameter p at position i of a feed without defects
BaseVal(p, i) ==
    CASE p = "temperature_2m"            -> 150 + ((i * 7) % 90)
      [] p = "relative_humidity_2m"      -> 40 + (i % 50)
      [] p = "precipitation_probability" -> (i * 10) % 110
      [] p = "precipitation"             -> (i % 4) * 5
      [] p = "weather_code"              -> i % 4
      [] p = "visibility"                -> 8000 + 1000 * (i % 5)
      [] p = "wind_speed_10m"            -> (i + 1) % 7
      [] p = "wind_direction_10m"        -> (i * 37) % 360
      [] p = "wind_gusts_10m"            -> ((i + 1) % 7) + (i % 3)
      [] p = "wave_height"               -> 300 + ((i * 130) % 1700)
      [] p = "wave_direction"            -> (i * 29) % 360
      [] p = "wave_period"               -> 30 + (i % 40)
      [] p = "wind_wave_height"          -> 100 + ((i * 70) % 900)
      [] p = "wind_wave_direction"       -> (i * 31) % 360
      [] p = "wind_wave_period"          -> 20 + (i % 30)
      [] p = "swell_wave_height"         -> 200 + ((i * 55) % 800)
      [] p = "swell_wave_direction"      -> (i * 41) % 360
      [] p = "swell_wave_period"         -> 50 + ((i * 3) % 60)

\* n hourly timestamps from hour h0 of day d0 on, without those of day `skip`
HourlyTimes(d0, h0, n, skip) ==
    LET all == [i \in 1..n |-> [date |-> d0 + ((h0 + i - 1) \div 24),
                                hour |-> (h0 + i - 1) % 24]]
    IN  SelectSeq(all, LAMBDA t : t.date # skip)

\* a day is skipped only in feeds of two days or more; feeds that start in
\* the evening cover a day at most
Shapes ==
    {sh \in [d0 : 1..NumDays, h0 : {0, 17}, skip : {0, 2},
             n : {0, 1, 2} \cup {24 * k : k \in 1..MaxFeedDays}] :
        /\ sh.skip = 0 \/ sh.n >= 48
        /\ sh.h0 = 0 \/ sh.n <= 24}

DirLos == {0, 22, 45, 67, 315, 338, 360}
DirSteps == {0, 1, 45, 90}

NoDefect == [kind |-> "none", param |-> "time", lo |-> 0, step |-> 0]

Defects(params) ==
    {NoDefect}
    \cup [kind : {"missing"}, param : {"time"}, lo : {0}, step : {0}]
    \cup [kind : {"null_even", "all_null", "short", "missing"}, param : params,
          lo : {0}, step : {0}]
    \cup [kind : {"dir"}, param : params \cap {"swell_wave_direction"},
          lo : DirLos, step : DirSteps]

ParamArr(p, len, defect) ==
    IF defect.param # p THEN [i \in 1..len |-> Num(BaseVal(p, i))]
    ELSE CASE defect.kind = "null_even" ->
                [i \in 1..len |-> IF i % 2 = 0 THEN None ELSE Num(BaseVal(p, i))]
           [] defect.kind = "all_null" -> [i \in 1..len |-> None]
           [] defect.kind = "short" -> [i \in 1..(len \div 2) |-> Num(BaseVal(p, i))]
           [] defect.kind = "dir" ->
                [i \in 1..len |-> Num((defect.lo + (i - 1) * defect.step) % 361)]

MkPayload(params, shape, defect) ==
    LET times == HourlyTimes(shape.d0, shape.h0, shape.n, shape.skip)
        keys == {k \in params \cup {"time"} :
                    ~(defect.kind = "missing" /\ defect.param = k)}
    IN  [hourly |-> [k \in keys |-> IF k = "time" THEN times
                                    ELSE ParamArr(k, Len(times), defect)]]

\* a body without the `hourly` key (Open-Meteo's error body)
NoHourly == [error |-> TRUE]

Params(src) == IF src = "weather" THEN weather_hourly_params ELSE marine_hourly_params

Payloads(src) ==
    {NoHourly} \cup {MkPayload(Params(src), sh, df) : sh \in Shapes, df \in Defects(Params(src))}

---------------------------------------------------------------------------
(* SpecProcess: one call of process_weather_data or process_marine_data on *)
(* a received response                                                     *)

InitProcess ==
    /\ today \in {1, 2}
    /\ target_date \in {today, today + 1}
    /\ source \in {"weather", "marine"}
    /\ payload \in Payloads(source)
    /\ out = Pending
    /\ pc = "process"
    /\ idx = 1
    /\ results = <<>>
    /\ weather_data = <<>>
    /\ marine_data = Pending
    /\ MATPLOTLIB_AVAILABLE = TRUE
    /\ plt_style = "default"
    /\ weather_keys = WEATHER_MODELS

ProcessWeather ==
    /\ pc = "process" /\ source = "weather" /\ out = Pending
    /\ out' = process_weather_data(payload, today)
    /\ UNCHANGED <<plt_style, weather_keys, MATPLOTLIB_AVAILABLE, today, target_date, source, payload, pc, idx, results,
                   weather_data, marine_data>>

ProcessMarine ==
    /\ pc = "process" /\ source = "marine" /\ out = Pending
    /\ out' = process_marine_data(payload, target_date)
    /\ UNCHANGED <<plt_style, weather_keys, MATPLOTLIB_AVAILABLE, today, target_date, source, payload, pc, idx, results,
                   weather_data, marine_data>>

NextProcess == ProcessWeather \/ ProcessMarine

SpecProcess == InitProcess /\ [][NextProcess]_vars


---------------------------------------------------------------------------
(* Spec: a caller that wants the forecast of target_date calls             *)
(* fetch_weather_data(lat, lon, models) and then                           *)
(* fetch_marine_data(lat, lon, target_date)                                *)

models == SubSeq(WEATHER_MODELS, 1, NumModels)

\* requests.get / raise_for_status raised a RequestException
RequestFailed == [failed |-> TRUE]

\* {"error": str(e)}
request_error == [error |-> <<"RequestException">>]

LoopShapes ==
    {[d0 |-> 2, h0 |-> 0, skip |-> 0, n |-> 24],
     [d0 |-> 1, h0 |-> 17, skip |-> 0, n |-> 2],
     [d0 |-> 1, h0 |-> 0, skip |-> 0, n |-> 1]}

LoopDefects(src) ==
    {NoDefect}
    \cup [kind : {"null_even"}, lo : {0}, step : {0},
          param : Params(src) \cap {"temperature_2m", "wind_speed_10m", "wave_height"}]

Responses(src) ==
    {RequestFailed, NoHourly}
    \cup {MkPayload(Params(src), sh, df) : sh \in LoopShapes, df \in LoopDefects(src)}

\* a store that drops the entries already in the mapping
set_item_only(d, key, value) == (key :> value)

\* d[key] = value
set_item(d, key, value) == (key :> value) @@ d

Init ==
    /\ today \in {1, 2}
    /\ target_date \in {today, today + 1}
    /\ source = "weather"
    /\ payload = NoHourly
    /\ out = Pending
    /\ pc = "weather"
    /\ idx = 1
    /\ results = <<>>
    /\ weather_data = <<>>
    /\ marine_data = Pending
    /\ MATPLOTLIB_AVAILABLE = TRUE
    /\ plt_style = "default"
    /\ weather_keys = WEATHER_MODELS

\* one iteration of `for model in models` (open_meteo_weather.py 42-61)
FetchWeatherModel ==
    /\ pc = "weather" /\ idx <= Len(models)
    /\ \E response \in Responses("weather") :
          IF response = RequestFailed
          THEN /\ results' = set_item(results, models[idx], request_error)
               /\ idx' = idx + 1
               /\ pc' = pc
          ELSE LET entry == process_weather_data(response, today)
               IN  IF Raised(entry)
                   THEN \* not a RequestException: it leaves fetch_weather_data
                        /\ pc' = "raised"
                        /\ UNCHANGED <<results, idx>>
                   ELSE /\ results' = set_item(results, models[idx], entry)
                        /\ idx' = idx + 1
                        /\ pc' = pc
    /\ UNCHANGED <<plt_style, weather_keys, MATPLOTLIB_AVAILABLE, today, target_date, source, payload, out, weather_data, marine_data>>

\* return results (open_meteo_weather.py 63)
FetchWeatherReturn ==
    /\ pc = "weather" /\ idx > Len(models)
    /\ weather_data' = results
    /\ pc' = "marine"
    /\ UNCHANGED <<plt_style, weather_keys, MATPLOTLIB_AVAILABLE, today, target_date, source, payload, out, idx, results, marine_data>>

\* fetch_marine_data(lat, lon, target_date) (open_meteo_marine.py 47-54)
FetchMarine ==
    /\ pc = "marine"
    /\ \E response \in Responses("marine") :
          marine_data' = IF response = RequestFailed THEN request_error
                         ELSE process_marine_data(response, target_date)
    /\ pc' = "done"
    /\ UNCHANGED <<plt_style, weather_keys, MATPLOTLIB_AVAILABLE, today, target_date, source, payload, out, idx, results, weather_data>>

Next == FetchWeatherModel \/ FetchWeatherReturn \/ FetchMarine

Spec == Init /\ [][Next]_vars


---------------------------------------------------------------------------
(* Vocabulary of the properties                                            *)

HasHourly(data) == "hourly" \in DOMAIN data
FeedTimes(data) == GetList(data["hourly"], "time")
IsData(o) == "summary" \in DOMAIN o
Returned == out # Pending /\ ~Raised(out)
NonNull(s) == SelectSeq(s, LAMBDA v : ~IsNone(v))
Min(a, b) == IF a <= b THEN a ELSE b

\* the timestamps of the feed on `date` inside the window, in feed order
WindowOf(times, date) == SelectSeq(times, LAMBDA t : t.date = date /\ InWindow(t))
\* the in-window timestamps of the feed, whatever their date, in feed order
InWindowOf(times) == SelectSeq(times, LAMBDA t : InWindow(t))

\* the indices out.times was taken from
SelectedIndices ==
    IF source = "weather" THEN weather_daytime_indices(FeedTimes(payload), today)
    ELSE marine_daytime_indices(FeedTimes(payload), target_date)

\* the raw samples of `key` at the selected indices, nulls included
RawSelected(key) == get_values(payload["hourly"], key, SelectedIndices)

\* mean of the non-null samples of s, rounded as the summary rounds, 0 if none;
\* `factor` converts a sample to the unit the mean is taken in
MeanNonNull(s, factor, unit) ==
    IF NonNull(s) = <<>> THEN Num(0)
    ELSE Num(PyRound(SumSeq(NonNull(s)) * factor, Len(NonNull(s)) * unit))

---------------------------------------------------------------------------
(* C1 - when the feed has a sample on target_date with hour in 8..18, the  *)
(* `times` of the entry process_weather_data / process_marine_data returns *)
(* are exactly the feed's timestamps of target_date with 8 <= hour <= 18,  *)
(* in feed order (for 72 hourly samples over three dates and the second    *)
(* date as target, the 11 samples of that date).                           *)
C1_WindowIsTargetDate ==
    (Returned /\ HasHourly(payload) /\ WindowOf(FeedTimes(payload), target_date) # <<>>)
        => /\ "times" \in DOMAIN out
           /\ out.times = WindowOf(FeedTimes(payload), target_date)
           /\ (Len(FeedTimes(payload)) = 72 /\ FeedTimes(payload)[1].hour = 0
               /\ FeedTimes(payload)[1].date = target_date - 1
               /\ FeedTimes(payload)[72].date = target_date + 1)
                  => Len(out.times) = 11

(* C2 - every non-error entry of the mapping fetch_weather_data returned,  *)
(* and a non-error entry fetch_marine_data returned, has a target_date     *)
(* field equal to the requested date, and times and summary.               *)
EntryOfTargetDate(e) ==
    ~IsError(e) => /\ {"target_date", "times", "summary"} \subseteq DOMAIN e
                   /\ e.target_date = target_date

C2_EntriesCarryTargetDate ==
    /\ pc \in {"marine", "done"} =>
          \A m \in DOMAIN weather_data : EntryOfTargetDate(weather_data[m])
    /\ pc = "done" => EntryOfTargetDate(marine_data)

(* C3 - when no sample of the feed is on target_date inside the window but *)
(* the feed has in-window samples, the entry's times are the first         *)
(* min(11, count) in-window timestamps of the feed, in feed order, for the *)
(* weather feed and for the marine feed alike.                             *)
C3_FallbackFirstEleven ==
    (Returned /\ HasHourly(payload)
       /\ WindowOf(FeedTimes(payload), target_date) = <<>>
       /\ InWindowOf(FeedTimes(payload)) # <<>>)
        => /\ "times" \in DOMAIN out
           /\ out.times = SubSeq(InWindowOf(FeedTimes(payload)), 1,
                                 Min(FallbackLimit, Len(InWindowOf(FeedTimes(payload)))))

(* C4 - when the response has hourly data but the feed has no sample with  *)
(* hour in 8..18 at all (so neither the exact date nor the fallback        *)
(* selects anything), the result is an error entry with only the error     *)
(* field, whose value is neither the failed-fetch nor the no-hourly one.   *)
C4_EmptyWindowIsError ==
    (Returned /\ HasHourly(payload) /\ InWindowOf(FeedTimes(payload)) = <<>>)
        => /\ DOMAIN out = {"error"}
           /\ out.error # request_error.error
           /\ out.error # <<"No hourly data">>

(* C5 - in a weather entry, a null wind speed / gust sample of the window  *)
(* is a null knots sample and a present sample v is v * 1.94384: a null    *)
(* never becomes the number 0.                                             *)
KnotsOf(raw, knots) ==
    /\ Len(knots) = Len(raw)
    /\ \A k \in 1..Len(raw) :
          knots[k] = IF IsNone(raw[k]) THEN None ELSE Num(Val(raw[k]) * MS_TO_KNOTS)

C5_NullWindStaysNull ==
    (Returned /\ source = "weather" /\ IsData(out))
        => /\ KnotsOf(RawSelected("wind_speed_10m"), out.wind_speed_knots)
           /\ KnotsOf(RawSelected("wind_gusts_10m"), out.wind_gusts_knots)

(* C6 - computing a summary never raises, and every avg_* statistic is the *)
(* mean of exactly the non-null samples of its parameter in the window, or *)
(* the sentinel 0 ("N/A" for the primary swell direction) when there is    *)
(* none.                                                                   *)
C6_AveragesOverNonNull ==
    (out # Pending /\ HasHourly(payload))
        => /\ ~Raised(out)
           /\ (source = "weather" /\ IsData(out)) =>
                 /\ out.summary.avg_wind_knots =
                       MeanNonNull(RawSelected("wind_speed_10m"), MS_TO_KNOTS, KnotScale \div 10)
                 /\ out.summary.avg_temp = MeanNonNull(RawSelected("temperature_2m"), 1, 1)
           /\ (source = "marine" /\ IsData(out)) =>
                 /\ out.summary.avg_wave_height_m = MeanNonNull(RawSelected("wave_height"), 1, 10)
                 /\ out.summary.avg_swell_height_m =
                       MeanNonNull(RawSelected("swell_wave_height"), 1, 10)
                 /\ out.summary.avg_swell_period_s =
                       MeanNonNull(RawSelected("swell_wave_period"), 1, 1)
                 /\ (out.summary.primary_swell_direction = "N/A")
                       <=> (NonNull(RawSelected("swell_wave_direction")) = <<>>)

(* C7 - the summary of every non-error model holds the average and the     *)
(* maximum of wind speed, of gust, of temperature and of precipitation     *)
(* probability: eight statistics.                                          *)
C7_EightStatistics ==
    (Returned /\ source = "weather" /\ IsData(out))
        => /\ Cardinality(DOMAIN out.summary) = 8
           /\ {"avg_wind_knots", "max_wind_knots", "avg_gust_knots", "max_gust_knots",
               "avg_temp", "max_temp", "avg_precip_prob", "max_precip_prob"}
                  \subseteq DOMAIN out.summary

(* C8 - primary_swell_direction is directions[round(m / 45) mod 8], m the  *)
(* mean of the window's non-null swell directions; it is one of the eight  *)
(* names, a mean of 337.5 or more gives N, and [0, 90] gives NE.           *)
NearestOctant(sum, count) == PyRound(sum, 45 * count) % 8

C8_PrimarySwellDirection ==
    LET ds == NonNull(RawSelected("swell_wave_direction"))
        name == out.summary.primary_swell_direction
    IN  (Returned /\ source = "marine" /\ IsData(out) /\ ds # <<>>)
            => /\ name = directions[NearestOctant(SumSeq(ds), Len(ds)) + 1]
               /\ \E k \in 1..8 : name = directions[k]
               /\ (2 * SumSeq(ds) > 675 * Len(ds)) => name = "N"
               /\ (ds = <<Num(0), Num(90)>>) => name = "NE"

\* a two-sample window with swell directions 0 and 90 was summarised
C8_Witness ==
    /\ Returned /\ source = "marine" /\ IsData(out)
    /\ out.swell_wave_direction_deg = <<Num(0), Num(90)>>
    /\ out.summary.primary_swell_direction = "NE"


(* C9 - the mapping fetch_weather_data returns has exactly one entry per   *)
(* requested model; an entry is either an error entry with nothing but the *)
(* error, or a data entry with times and summary and no error; and no step *)
(* of the loop, a failed fetch included, changes or removes the entry of   *)
(* another model.                                                          *)
ErrorXorData(e) ==
    \/ DOMAIN e = {"error"}
    \/ {"times", "summary"} \subseteq DOMAIN e /\ "error" \notin DOMAIN e

C9_OneEntryPerModel ==
    /\ [](pc \in {"marine", "done"} =>
            /\ DOMAIN weather_data = {models[i] : i \in 1..Len(models)}
            /\ \A m \in DOMAIN weather_data : ErrorXorData(weather_data[m]))
    /\ [][\A m \in DOMAIN results :
             m \in DOMAIN results' /\ results'[m] = results[m]]_vars

\* a mapping was returned in which one model failed after another one gave data
C9_Witness ==
    /\ pc = "marine"
    /\ IsData(weather_data[models[1]])
    /\ weather_data[models[1]].times # <<>>
    /\ weather_data[models[Len(models)]] = request_error

(* C10 - process_weather_data and process_marine_data never raise for a    *)
(* received payload, so no exception leaves the loop over the models.      *)
C10_NeverRaises == pc # "raised"


---------------------------------------------------------------------------
(* The parameter sequences of a data entry and the hourly array each is    *)
(* taken from (open_meteo_weather.py 107-115, open_meteo_marine.py 89-95)  *)

SourceKey ==
    [temperature |-> "temperature_2m", humidity |-> "relative_humidity_2m",
     precipitation_probability |-> "precipitation_probability",
     precipitation |-> "precipitation", weather_code |-> "weather_code",
     visibility |-> "visibility", wind_speed_knots |-> "wind_speed_10m",
     wind_direction |-> "wind_direction_10m", wind_gusts_knots |-> "wind_gusts_10m",
     wave_height_m |-> "wave_height", wave_direction_deg |-> "wave_direction",
     wave_period_s |-> "wave_period", swell_wave_height_m |-> "swell_wave_height",
     swell_wave_direction_deg |-> "swell_wave_direction",
     swell_wave_period_s |-> "swell_wave_period",
     wind_wave_height_m |-> "wind_wave_height"]

ParamKeys(entry) == DOMAIN entry \cap DOMAIN SourceKey

(* C11 as stated - in every non-error entry every parameter sequence has   *)
(* the same length as `times`.                                             *)
C11_EqualLengths ==
    (Returned /\ IsData(out))
        => \A k \in ParamKeys(out) : Len(out[k]) = Len(out.times)

(* C11 as amended - in every non-error entry no parameter sequence is      *)
(* longer than `times`, and a parameter sequence has the length of `times` *)
(* when its hourly array reaches every selected index and, in a marine     *)
(* entry, has no null at a selected index.                                 *)
C11_NeverLongerThanTimes ==
    (Returned /\ IsData(out))
        => /\ Len(out.times) = Len(SelectedIndices)
           /\ \A k \in ParamKeys(out) :
                 /\ Len(out[k]) <= Len(out.times)
                 /\ (/\ Len(RawSelected(SourceKey[k])) = Len(SelectedIndices)
                     /\ source = "marine" => ~HasNone(RawSelected(SourceKey[k])))
                        => Len(out[k]) = Len(out.times)

\* a data entry with a parameter sequence that is shorter than `times`, not empty
C11_Witness ==
    /\ Returned /\ IsData(out)
    /\ \E k \in ParamKeys(out) : 0 < Len(out[k]) /\ Len(out[k]) < Len(out.times)

(* C12 - in a weather and in a marine entry alike, a null sample at a      *)
(* selected index is left out of its parameter sequence (which therefore   *)
(* holds no null and is never longer than `times`), while `times` holds    *)
(* the timestamp of every selected index.                                  *)
C12_NullsDropped ==
    (Returned /\ IsData(out))
        => /\ Len(out.times) = Len(SelectedIndices)
           /\ \A k \in ParamKeys(out) :
                 /\ ~HasNone(out[k])
                 /\ Len(out[k]) = Len(NonNull(RawSelected(SourceKey[k])))
                 /\ Len(out[k]) <= Len(out.times)


---------------------------------------------------------------------------
(* visualizer.py: the colour functions.  Their arguments are fixed point   *)
(* like the data they colour: wind in 1/KnotScale knot, wave height in     *)
(* millimetres, temperature in tenths of a degree, precipitation in tenths *)
(* of a millimetre.                                                        *)

\* the thresholds compared with <=: a value on a threshold stays in the lower tier
get_wind_color_inclusive(speed) ==
    IF speed <= 5 * KnotScale THEN "#E8F5E9"
    ELSE IF speed <= 10 * KnotScale THEN "#C8E6C9"
    ELSE IF speed <= 15 * KnotScale THEN "#A5D6A7"
    ELSE IF speed <= 20 * KnotScale THEN "#FFEB3B"
    ELSE IF speed <= 25 * KnotScale THEN "#FFC107"
    ELSE IF speed <= 30 * KnotScale THEN "#FF9800"
    ELSE IF speed <= 35 * KnotScale THEN "#FF5722"
    ELSE IF speed <= 40 * KnotScale THEN "#F44336"
    ELSE IF speed <= 45 * KnotScale THEN "#E91E63"
    ELSE "#9C27B0"

get_wind_color(speed) ==
    IF speed < 5 * KnotScale THEN "#E8F5E9"
    ELSE IF speed < 10 * KnotScale THEN "#C8E6C9"
    ELSE IF speed < 15 * KnotScale THEN "#A5D6A7"
    ELSE IF speed < 20 * KnotScale THEN "#FFEB3B"
    ELSE IF speed < 25 * KnotScale THEN "#FFC107"
    ELSE IF speed < 30 * KnotScale THEN "#FF9800"
    ELSE IF speed < 35 * KnotScale THEN "#FF5722"
    ELSE IF speed < 40 * KnotScale THEN "#F44336"
    ELSE IF speed < 45 * KnotScale THEN "#E91E63"
    ELSE "#9C27B0"

get_wave_color(height) ==
    IF height < 300 THEN "#E3F2FD"
    ELSE IF height < 500 THEN "#BBDEFB"
    ELSE IF height < 800 THEN "#90CAF9"
    ELSE IF height < 1000 THEN "#64B5F6"
    ELSE IF height < 1500 THEN "#42A5F5"
    ELSE IF height < 2000 THEN "#2196F3"
    ELSE "#1565C0"

get_temp_color(temp) ==
    IF temp < 100 THEN "#90CAF9"
    ELSE IF temp < 150 THEN "#E1F5FE"
    ELSE IF temp < 200 THEN "#FFF9C4"
    ELSE IF temp < 250 THEN "#FFEB3B"
    ELSE IF temp < 300 THEN "#FF9800"
    ELSE "#FF5722"

get_precip_color(precip) ==
    IF precip < 1 THEN "#FAFAFA"
    ELSE IF precip < 10 THEN "#E1F5FE"
    ELSE IF precip < 30 THEN "#81D4FA"
    ELSE IF precip < 50 THEN "#29B6F6"
    ELSE IF precip < 100 THEN "#0288D1"
    ELSE "#01579B"

ColorFamilies == {"wind", "wave", "temp", "precip"}

color_func(family, value) ==
    CASE family = "wind" -> get_wind_color(value)
      [] family = "wave" -> get_wave_color(value)
      [] family = "temp" -> get_temp_color(value)
      [] family = "precip" -> get_precip_color(value)

\* the values a colour function is called with: wind 0.0 .. 100.0 kn by 0.1,
\* wave 0 .. 5 m by 5 mm, temperature -20.0 .. 80.0 by 0.1, precipitation
\* 0.0 .. 100.0 mm by 0.1
ColorStep(family) ==
    CASE family = "wind" -> KnotScale \div 10
      [] family = "wave" -> 5
      [] family = "temp" -> 1
      [] family = "precip" -> 1

ColorValue(family, k) ==
    IF family = "temp" THEN k - 200 ELSE k * ColorStep(family)

ColorInputs(family) == {ColorValue(family, k) : k \in 0..MaxColorSteps}

(* SpecColor: one call of a colour function *)

InitColor ==
    /\ source \in ColorFamilies
    /\ payload \in ColorInputs(source)
    /\ out = Pending
    /\ pc = "color"
    /\ today = 1 /\ target_date = 1 /\ idx = 1 /\ results = <<>>
    /\ weather_data = <<>> /\ marine_data = Pending
    /\ MATPLOTLIB_AVAILABLE = TRUE
    /\ plt_style = "default"
    /\ weather_keys = WEATHER_MODELS

CallColor ==
    /\ pc = "color" /\ out = Pending
    /\ out' = [color |-> color_func(source, payload)]
    /\ UNCHANGED <<plt_style, weather_keys, MATPLOTLIB_AVAILABLE, today, target_date, source, payload, pc,
                   idx, results, weather_data, marine_data>>

NextColor == CallColor

SpecColor == InitColor /\ [][NextColor]_vars

---------------------------------------------------------------------------
(* The tiers of the colour families as the specification lists them *)

TierThresholds(family) ==
    CASE family = "wind" -> [i \in 1..9 |-> 5 * i * KnotScale]
      [] family = "wave" -> <<300, 500, 800, 1000, 1500, 2000>>
      [] family = "temp" -> [i \in 1..5 |-> (5 + 5 * i) * 10]
      [] family = "precip" -> <<1, 10, 30, 50, 100>>

\* how many thresholds are <= the value
TierIndex(family, value) ==
    Cardinality({i \in DOMAIN TierThresholds(family) : TierThresholds(family)[i] <= value})

TierCount(family) == Len(TierThresholds(family)) + 1

\* the colour the code gives each tier, sampled at the tier's lowest value
TierColor(family, tier) ==
    color_func(family, IF tier = 0 THEN ColorValue(family, 0)
                       ELSE TierThresholds(family)[tier])

(* C13 - a colour function returns the colour of the tier whose index is   *)
(* the number of thresholds <= the value (ten wind tiers, seven wave, six  *)
(* temperature, six precipitation): a value on a threshold is in the       *)
(* higher tier, every value >= the top threshold is in the extreme tier,   *)
(* distinct tiers of a family have distinct colours, and the tier index    *)
(* never decreases as the value grows.                                     *)
C13_TierByThresholds ==
    (pc = "color" /\ out # Pending)
        => /\ out.color = TierColor(source, TierIndex(source, payload))
           /\ TierCount("wind") = 10 /\ TierCount("wave") = 7
           /\ TierCount("temp") = 6 /\ TierCount("precip") = 6
           /\ \A t1, t2 \in 0..(TierCount(source) - 1) :
                 t1 # t2 => TierColor(source, t1) # TierColor(source, t2)
           /\ \A t \in 0..(TierCount(source) - 1) :
                 (out.color = TierColor(source, t)) <=> (t = TierIndex(source, payload))
           /\ payload >= TierThresholds(source)[Len(TierThresholds(source))]
                 => out.color = TierColor(source, TierCount(source) - 1)
           /\ TierIndex(source, payload)
                 <= TierIndex(source, payload + ColorStep(source))
           /\ color_func(source, payload + ColorStep(source))
                 = TierColor(source, TierIndex(source, payload + ColorStep(source)))

\* wind exactly on the 15 kn threshold is coloured as the tier above 14.9 kn,
\* and wind 100 kn as wind 45 kn
C13_Witness ==
    /\ pc = "color" /\ out # Pending /\ source = "wind"
    /\ \/ /\ payload = 15 * KnotScale
          /\ out.color = "#FFEB3B"
          /\ get_wind_color(payload - ColorStep("wind")) = "#A5D6A7"
       \/ /\ payload = 100 * KnotScale
          /\ out.color = get_wind_color(45 * KnotScale)


---------------------------------------------------------------------------
(* visualizer.py: create_windguru_table and create_windguru_chart.         *)
(* The PNG a function returns is modelled by the figure it was saved from: *)
(* the figure size, the axis limits and the sequence of rectangles drawn,  *)
(* each with the text drawn on it.  Coordinates and sizes are in           *)
(* hundredths of an axis unit (of an inch for the figure size); column i   *)
(* of range(n_hours) is column i+1 here, so its rectangle starts at        *)
(* x = i + 1.5 = (col * 100 + 50) / 100.                                   *)

\* for model_id, data in weather_data.items(): fetch_weather_data inserts
\* the entries in the order of `models`, a prefix of WEATHER_MODELS
dict_items(d) == SelectSeq(weather_keys, LAMBDA m : m \in DOMAIN d)

get_model_display_name(model_id) ==
    CASE model_id = "ecmwf_ifs" -> "ECMWF IFS"
      [] model_id = "icon_eu" -> "ICON-EU"
      [] model_id = "meteofrance_seamless" -> "Meteo-France"
      [] model_id = "gfs_seamless" -> "GFS (NOAA)"
      [] OTHER -> model_id

arrows == <<"down", "down-left", "left", "up-left", "up", "up-right", "right", "down-right">>

\* the index taken with floor instead of round
get_direction_arrow_floor(degrees) == arrows[((degrees \div 45) % 8) + 1]

get_direction_arrow(degrees) == arrows[(PyRound(degrees, 45) % 8) + 1]

dirs == <<"K", "KD", "D", "GD", "G", "GB", "B", "KB">>

\* visualizer.py's get_direction_name (the marine module's is get_direction_name)
visualizer_get_direction_name(degrees) == dirs[(PyRound(degrees, 45) % 8) + 1]

\* the number a family's fixed-point value 1 stands for, inverted
FamilyScale(family) ==
    CASE family = "wind" -> KnotScale
      [] family = "wave" -> 1000
      [] family = "temp" -> 10
      [] family = "precip" -> 10

\* fmt.format(val): what the text shows, in units (for '{:.1f}' in tenths)
format(fmt, val, scale) ==
    IF fmt = "{:.0f}" THEN PyRound(val, scale) ELSE PyRound(val * 10, scale)

\* ax.add_patch(plt.Rectangle((x, y), w, h, facecolor=...)) and the ax.text on it
Rectangle(band, row, col, x, y, w, h, facecolor, text, shown, value, color) ==
    [band |-> band, row |-> row, col |-> col, x |-> x, y |-> y, w |-> w, h |-> h,
     facecolor |-> facecolor, text |-> text, shown |-> shown, value |-> value,
     color |-> color]

\* the 1.5 wide label rectangle that starts a row
label_cell(band, row, y, facecolor, label) ==
    Rectangle(band, row, 0, 0, y - 35, 150, 70, facecolor, label, None, None, "white")

\* the band header over the whole width
band_header(band, y, n_hours, facecolor, title) ==
    Rectangle(band, "header", 0, 0, y - 40, n_hours * 100 + 150, 80, facecolor,
              title, None, None, "white")

\* the 'Saat' row: one cell per element of `shown_hours`
hour_row(band, y, shown_hours) ==
    <<label_cell(band, "hours", y, "#34495E", "Saat")>>
    \o [i \in 1..Len(shown_hours) |->
            Rectangle(band, "hours", i, i * 100 + 50, y - 35, 100, 70, "#34495E",
                      "HH:MM", Num(shown_hours[i].hour), None, "white")]

\* txt_color = text_color if text_color else ('white' if val > 35 else '#333333')
txt_color(text_color, val, family) ==
    IF text_color # "" THEN text_color
    ELSE IF val > 35 * FamilyScale(family) THEN "white" ELSE "#333333"

\* the value cells drawn one column to the right
_draw_data_row_shifted(band, row, y, label, values, n_hours, header_color, family, fmt, text_color) ==
    <<label_cell(band, row, y, header_color, label)>>
    \o [i \in 1..n_hours |->
            Rectangle(band, row, i, i * 100 + 150, y - 35, 100, 70, "#BDBDBD",
                      "-", None, None, "#757575")]

_draw_data_row(band, row, y, label, values, n_hours, header_color, family, fmt, text_color) ==
    <<label_cell(band, row, y, header_color, label)>>
    \o [i \in 1..n_hours |->
            IF i <= Len(values) /\ ~IsNone(values[i])
            THEN LET val == Val(values[i])
                 IN  Rectangle(band, row, i, i * 100 + 50, y - 35, 100, 70,
                               color_func(family, val), fmt,
                               Num(format(fmt, val, FamilyScale(family))), values[i],
                               txt_color(text_color, val, family))
            ELSE Rectangle(band, row, i, i * 100 + 50, y - 35, 100, 70, "#BDBDBD",
                           "-", None, None, "#757575")]

\* a row of direction arrows: every cell is drawn, the arrow only for a value
arrow_row(band, row, y, label, header_color, facecolor, values, n_hours, color) ==
    <<label_cell(band, row, y, header_color, label)>>
    \o [i \in 1..n_hours |->
            IF i <= Len(values) /\ ~IsNone(values[i])
            THEN Rectangle(band, row, i, i * 100 + 50, y - 35, 100, 70, facecolor,
                           get_direction_arrow(Val(values[i])), None, values[i], color)
            ELSE Rectangle(band, row, i, i * 100 + 50, y - 35, 100, 70, facecolor,
                           "", None, None, color)]

\* Row 6: vis_km = vis[i] / 1000, f'{vis_km:.0f}'
visibility_row(band, y, vis, n_hours) ==
    <<label_cell(band, "visibility", y, "#607D8B", "Gorus (km)")>>
    \o [i \in 1..n_hours |->
            IF i <= Len(vis) /\ ~IsNone(vis[i])
            THEN Rectangle(band, "visibility", i, i * 100 + 50, y - 35, 100, 70,
                           "#ECEFF1", "{:.0f}", Num(PyRound(Val(vis[i]), 1000)),
                           vis[i], "#37474F")
            ELSE Rectangle(band, "visibility", i, i * 100 + 50, y - 35, 100, 70,
                           "#ECEFF1", "", None, None, "#37474F")]

\* what one iteration of `for model_id, data in valid_models` draws with
\* current_y = y on entry; it leaves current_y = y - 620
model_band(model_id, data, hours, y) ==
    LET n_hours == Len(hours)
    IN  <<band_header(model_id, y, n_hours, "#3498DB", get_model_display_name(model_id))>>
        \o hour_row(model_id, y - 80, hours)
        \o _draw_data_row(model_id, "wind", y - 150, "Ruzgar (knot)",
                          GetList(data, "wind_speed_knots"), n_hours, "#27AE60",
                          "wind", "{:.0f}", "")
        \o _draw_data_row(model_id, "gust", y - 220, "Hamle (knot)",
                          GetList(data, "wind_gusts_knots"), n_hours, "#E74C3C",
                          "wind", "{:.0f}", "")
        \o arrow_row(model_id, "direction", y - 290, "Yon", "#9B59B6", "#ECF0F1",
                     GetList(data, "wind_direction_deg"), n_hours, "#2C3E50")
        \o _draw_data_row(model_id, "temperature", y - 360, "Sicaklik (C)",
                          GetList(data, "temperature_c"), n_hours, "#FF5722",
                          "temp", "{:.0f}", "")
        \o _draw_data_row(model_id, "precipitation", y - 430, "Yagis (mm)",
                          GetList(data, "precipitation_mm"), n_hours, "#0288D1",
                          "precip", "{:.1f}", "")
        \o visibility_row(model_id, y - 500, GetList(data, "visibility_m"), n_hours)

ModelBandHeight == 620     \* 0.8 + 6 * 0.7 + 1.2: current_y lost per model

RECURSIVE model_bands(_, _, _, _, _)
model_bands(weather, valid_models, k, hours, y) ==
    IF k > Len(valid_models) THEN <<>>
    ELSE model_band(valid_models[k], weather[valid_models[k]], hours, y)
         \o model_bands(weather, valid_models, k + 1, hours, y - ModelBandHeight)

\* the marine section drawn with current_y = y on entry; it leaves
\* current_y = y - 360
marine_band(marine, hours, y) ==
    LET n_hours == Len(hours)
        marine_hours == GetList(marine, "times")
    IN  <<band_header("marine", y, n_hours, "#00BCD4", "DENIZ DURUMU")>>
        \o hour_row("marine", y - 80, SubSeq(marine_hours, 1, Min(n_hours, Len(marine_hours))))
        \o _draw_data_row("marine", "wave", y - 150, "Dalga (m)",
                          GetList(marine, "wave_height_m"), n_hours, "#00BCD4",
                          "wave", "{:.1f}", "#0D47A1")
        \o arrow_row("marine", "wave_direction", y - 220, "Dalga Yonu", "#0097A7",
                     "#E0F7FA", GetList(marine, "wave_direction_deg"), n_hours, "#006064")
        \o _draw_data_row("marine", "swell", y - 290, "Swell (m)",
                          GetList(marine, "swell_wave_height_m"), n_hours, "#7C4DFF",
                          "wave", "{:.1f}", "#311B92")
        \o arrow_row("marine", "swell_direction", y - 360, "Swell Yonu", "#651FFF",
                     "#EDE7F6", GetList(marine, "swell_wave_direction_deg"), n_hours,
                     "#4527A0")

MarineBandHeight == 360    \* 0.8 + 4 * 0.7: current_y lost in the marine section

\* "times" in data, whatever the list holds
has_times_key(data) == "times" \in DOMAIN data

\* "times" in data and data["times"]
has_times(data) == "times" \in DOMAIN data /\ data["times"] # <<>>

\* "wave_height_m" in marine_data and marine_data["wave_height_m"]
has_waves(marine) == "wave_height_m" \in DOMAIN marine /\ marine["wave_height_m"] # <<>>

rows_per_model == 6

Max(a, b) == IF a >= b THEN a ELSE b

create_windguru_table(weather, marine, date) ==
    IF ~MATPLOTLIB_AVAILABLE THEN None
    ELSE LET valid_models == SelectSeq(dict_items(weather), LAMBDA m : has_times(weather[m]))
         IN  IF valid_models = <<>> THEN None
             ELSE LET hours == weather[valid_models[1]]["times"]
                      n_hours == Len(hours)
                      n_models == Len(valid_models)
                      total_rows == (2 + n_models * (rows_per_model + 1)) * 100
                      y_models == total_rows - 50 - 60 - 100
                      y_marine == y_models - n_models * ModelBandHeight
                      current_y == IF has_waves(marine) THEN y_marine - MarineBandHeight
                                   ELSE y_marine
                 IN  [fig_width |-> Max(1400, n_hours * 90),
                      fig_height |-> 200 + n_models * (rows_per_model * 50 + 100),
                      xlim |-> <<0, n_hours * 100 + 150>>,
                      ylim |-> <<current_y - 100, total_rows>>,
                      title |-> date,
                      patches |-> model_bands(weather, valid_models, 1, hours, y_models)
                                  \o (IF has_waves(marine)
                                      THEN marine_band(marine, hours, y_marine)
                                      ELSE <<>>)]

\* plt.style.use('dark_background') of create_windguru_chart: runs whenever
\* matplotlib is there, also on the call that returns None for want of hours
style_after_chart(style) ==
    IF MATPLOTLIB_AVAILABLE THEN "dark_background" ELSE style

\* rcParams['axes.labelcolor'] and the other default text colours of a style
rc_label_color(style) == IF style = "dark_background" THEN "white" ELSE "black"

\* the labels coloured by the style in force when the function is entered
chart_label_color_on_entry(style) == rc_label_color(style)

\* set_ylabel, set_title, legend and the tick labels give no colour: they take
\* the default of the style in force after plt.style.use
chart_label_color(style) == rc_label_color(style_after_chart(style))

chart_colors ==
    [ecmwf_ifs |-> "#e74c3c", icon_eu |-> "#3498db",
     meteofrance_seamless |-> "#2ecc71", gfs_seamless |-> "#f39c12"]

\* the series coloured by their position in the mapping
chart_series_by_position(weather, key, n_hours) ==
    LET with_key == SelectSeq(dict_items(weather),
                              LAMBDA m : GetList(weather[m], key) # <<>>)
        palette == <<"#e74c3c", "#3498db", "#2ecc71", "#f39c12">>
    IN  [k \in 1..Len(with_key) |->
            [model |-> with_key[k],
             label |-> get_model_display_name(with_key[k]),
             color |-> palette[k],
             y |-> SubSeq(weather[with_key[k]][key], 1,
                          Min(n_hours, Len(weather[with_key[k]][key])))]]

\* one plotted line: data[key][:len(hours)] of every entry that has the key
\* with a non-empty list, in the order of the mapping
chart_series(weather, key, n_hours) ==
    LET with_key == SelectSeq(dict_items(weather),
                              LAMBDA m : GetList(weather[m], key) # <<>>)
    IN  [k \in 1..Len(with_key) |->
            [model |-> with_key[k],
             label |-> get_model_display_name(with_key[k]),
             color |-> IF with_key[k] \in DOMAIN chart_colors
                       THEN chart_colors[with_key[k]] ELSE "#ffffff",
             y |-> SubSeq(weather[with_key[k]][key], 1,
                          Min(n_hours, Len(weather[with_key[k]][key])))]]

create_windguru_chart(weather, marine, date) ==
    IF ~MATPLOTLIB_AVAILABLE THEN None
    ELSE LET with_times == SelectSeq(dict_items(weather), LAMBDA m : has_times(weather[m]))
         IN  IF with_times = <<>> THEN None
             ELSE LET hours == weather[with_times[1]]["times"]
                      n_hours == Len(hours)
                      cut(s) == SubSeq(s, 1, Min(n_hours, Len(s)))
                 IN  [title |-> date,
                      labelcolor |-> chart_label_color(plt_style),
                      xticklabels |-> hours,
                      wind |-> chart_series(weather, "wind_speed_knots", n_hours),
                      gusts |-> chart_series(
                                    [m \in {k \in DOMAIN weather :
                                              GetList(weather[k], "wind_speed_knots") # <<>>}
                                        |-> weather[m]],
                                    "wind_gusts_knots", n_hours),
                      direction |-> chart_series(weather, "wind_direction_deg", n_hours),
                      temperature |-> chart_series(weather, "temperature_c", n_hours),
                      waves |-> IF has_waves(marine) THEN cut(marine["wave_height_m"])
                                ELSE <<>>,
                      swell |-> IF has_waves(marine)
                                THEN cut(GetList(marine, "swell_wave_height_m"))
                                ELSE <<>>]


(* SpecTable: one call of create_windguru_table or create_windguru_chart   *)
(* on a weather mapping and a marine entry the fetchers can return         *)

FullDay == [d0 |-> 1, h0 |-> 0, skip |-> 0, n |-> 24]
Evening == [d0 |-> 1, h0 |-> 17, skip |-> 0, n |-> 2]
Midnight == [d0 |-> 1, h0 |-> 0, skip |-> 0, n |-> 1]

\* a day of gale: wind 10 .. 33 m/s with one null sample, gusts that stop
\* after twelve samples
StormPayload ==
    LET p == MkPayload(weather_hourly_params, FullDay, NoDefect)
    IN  [hourly |->
            [p.hourly EXCEPT
                !["wind_speed_10m"] = [i \in 1..24 |-> IF i = 11 THEN None ELSE Num(9 + i)],
                !["wind_gusts_10m"] = [i \in 1..12 |-> Num(12 + i)]]]

TableEntries ==
    {request_error}
    \cup {process_weather_data(p, 1) :
            p \in {MkPayload(weather_hourly_params, Midnight, NoDefect),
                   MkPayload(weather_hourly_params, Evening, NoDefect),
                   StormPayload}}

TableMarine ==
    {request_error}
    \cup {process_marine_data(MkPayload(marine_hourly_params, FullDay, df), 1) :
            df \in {NoDefect,
                    [kind |-> "null_even", param |-> "wave_height", lo |-> 0, step |-> 0],
                    [kind |-> "all_null", param |-> "wave_height", lo |-> 0, step |-> 0]}}
    \cup {process_marine_data(MkPayload(marine_hourly_params, Evening, NoDefect), 1)}

Reverse(s) == [i \in 1..Len(s) |-> s[Len(s) + 1 - i]]

TableOrders == {WEATHER_MODELS, Reverse(WEATHER_MODELS)}

TableWeather(order) ==
    UNION {[{order[i] : i \in 1..k} -> TableEntries] : k \in 1..MaxTableModels}

InitTable ==
    /\ source \in {"table", "chart"}
    /\ weather_keys \in TableOrders
    /\ weather_data \in TableWeather(weather_keys)
    /\ marine_data \in TableMarine
    /\ MATPLOTLIB_AVAILABLE \in BOOLEAN
    /\ plt_style = "default"
    /\ payload = NoHourly
    /\ out = Pending
    /\ pc = "render"
    /\ today = 1 /\ target_date = 1 /\ idx = 1 /\ results = <<>>

CreateTable ==
    /\ pc = "render" /\ source = "table" /\ out = Pending
    /\ out' = [image |-> create_windguru_table(weather_data, marine_data, target_date)]
    /\ UNCHANGED <<plt_style, weather_keys, MATPLOTLIB_AVAILABLE, today, target_date, source, payload, pc,
                   idx, results, weather_data, marine_data>>

CreateChart ==
    /\ pc = "render" /\ source = "chart" /\ out = Pending
    /\ out' = [image |-> create_windguru_chart(weather_data, marine_data, target_date)]
    /\ plt_style' = style_after_chart(plt_style)
    /\ UNCHANGED <<weather_keys, MATPLOTLIB_AVAILABLE, today, target_date, source, payload, pc,
                   idx, results, weather_data, marine_data>>

NextTable == CreateTable \/ CreateChart

SpecTable == InitTable /\ [][NextTable]_vars

---------------------------------------------------------------------------
(* Vocabulary of the properties of a rendered table *)

Rendered == pc = "render" /\ out # Pending
Drawn == Rendered /\ out.image # None
TableDrawn == Drawn /\ source = "table"

\* the model entries with non-empty `times`, in mapping order
ModelsWithTimes ==
    SelectSeq(weather_keys,
              LAMBDA m : /\ m \in DOMAIN weather_data
                         /\ ~IsError(weather_data[m])
                         /\ weather_data[m]["times"] # <<>>)

\* the bands of a drawing: the band of each header rectangle, in drawing order
BandsOf(patches) ==
    LET headers == SelectSeq(patches, LAMBDA r : r.row = "header")
    IN  [k \in 1..Len(headers) |-> headers[k].band]

RowFamily(row) ==
    CASE row \in {"wind", "gust"} -> "wind"
      [] row = "temperature" -> "temp"
      [] row = "precipitation" -> "precip"
      [] OTHER -> "wave"

(* C14 - in a table data row with no fixed text colour (wind, gust,        *)
(* temperature, precipitation) the text of a value cell is light exactly   *)
(* when the value lies in one of the two most severe tiers of the row's    *)
(* colour family, and dark otherwise.                                      *)
C14_LightTextOnTwoTopTiers ==
    TableDrawn
        => \A k \in DOMAIN out.image.patches :
              LET r == out.image.patches[k]
                  family == RowFamily(r.row)
              IN  (r.row \in {"wind", "gust", "temperature", "precipitation"}
                      /\ ~IsNone(r.value))
                    => /\ r.color \in {"white", "#333333"}
                       /\ (r.color = "white")
                             <=> (TierIndex(family, Val(r.value)) >= TierCount(family) - 2)

(* C19 - create_windguru_table and create_windguru_chart return null       *)
(* exactly when the backend is unavailable or no model entry has non-empty *)
(* `times`; otherwise the table has exactly one band per model entry with  *)
(* non-empty `times` (an error entry gives none), in mapping order,        *)
(* followed by at most one marine band.                                    *)
C19_NullOrOneBandPerModel ==
    Rendered
        => /\ (out.image = None) <=> (~MATPLOTLIB_AVAILABLE \/ ModelsWithTimes = <<>>)
           /\ TableDrawn
                => \/ BandsOf(out.image.patches) = ModelsWithTimes
                   \/ BandsOf(out.image.patches) = ModelsWithTimes \o <<"marine">>

\* a table of three error-free models, drawn with three model bands
C19_Witness ==
    /\ TableDrawn
    /\ DOMAIN weather_data = {WEATHER_MODELS[i] : i \in 1..3}
    /\ \A m \in DOMAIN weather_data : ~IsError(weather_data[m])
    /\ Len(ModelsWithTimes) = 3
    /\ Len(SelectSeq(BandsOf(out.image.patches), LAMBDA b : b # "marine")) = 3

(* C20 - for every model count >= 1 and hour count >= 1, with or without   *)
(* the marine band, every rectangle of the table lies within the final     *)
(* axis limits (0 <= x <= hour_count + 1.5, current_y - 1 <= y <=          *)
(* total_rows); the figure height grows with rows_per_model * model_count  *)
(* and the figure width gives every hour column its 0.9 inch, and no row   *)
(* or column overlaps another: in drawing order a rectangle is either the  *)
(* next one to the right in its row or starts a row wholly below.          *)
C20_CellsWithinAxes ==
    TableDrawn
        => LET fig == out.image
               n_models == Len(ModelsWithTimes)
               n_hours == Len(weather_data[ModelsWithTimes[1]]["times"])
               total_rows == 2 + n_models * (rows_per_model + 1)
           IN  /\ n_models >= 1 /\ n_hours >= 1
               /\ fig.xlim = <<0, n_hours * 100 + 150>>
               /\ fig.ylim[2] = total_rows * 100
               /\ \A k \in DOMAIN fig.patches :
                     LET r == fig.patches[k]
                     IN  /\ r.w > 0 /\ r.h > 0
                         /\ fig.xlim[1] <= r.x /\ r.x + r.w <= fig.xlim[2]
                         /\ fig.ylim[1] <= r.y /\ r.y + r.h <= fig.ylim[2]
                         /\ k > 1 =>
                              LET q == fig.patches[k - 1]
                              IN  \/ /\ q.band = r.band /\ q.row = r.row
                                     /\ q.y = r.y /\ q.h = r.h
                                     /\ q.x + q.w <= r.x
                                  \/ /\ <<q.band, q.row>> # <<r.band, r.row>>
                                     /\ r.y + r.h <= q.y
               /\ fig.fig_height = 200 + (rows_per_model * n_models * 50) + n_models * 100
               /\ fig.fig_width >= n_hours * 90

\* a table of two model bands of eleven hours and the marine band
C20_Witness ==
    /\ TableDrawn
    /\ Len(ModelsWithTimes) = 2
    /\ Len(weather_data[ModelsWithTimes[1]]["times"]) = 11
    /\ BandsOf(out.image.patches) = ModelsWithTimes \o <<"marine">>


---------------------------------------------------------------------------
(* src/src/windy_stations.py.  A field of a JSON object is an option value *)
(* (<<>> null, <<x>> the number or string x); a value that is neither null *)
(* nor a number is NonNumeric.  Coordinates are in 1/10000 degree,         *)
(* distances in metres, distance_km and knots in tenths.  A response body  *)
(* that may be a list, an object or something else is tagged with `json`.  *)

NonNumeric == <<"str", "7">>
IsNumber(v) == Len(v) = 1

\* d.get(key)
Get(d, key) == IF key \in DOMAIN d THEN d[key] ELSE None

\* a or b, on numbers: None and 0 are false
num_or(a, b) == IF Truthy(a) THEN a ELSE b

\* a or b, on strings: None and "" are false
str_or(a, b) == IF ~IsNone(a) /\ Val(a) # "" THEN a ELSE b

JDict(fields) == [json |-> "dict", fields |-> fields]
JList(items) == [json |-> "list", items |-> items]
JStr == [json |-> "str"]

\* a second reference coordinate, near the equator and the prime meridian
EquatorRef == [lat |-> 1000, lon |-> 1000]

\* haversine(lat1, lon1, lat2, lon2) with radius 6371 km, evaluated by the
\* source formula at the coordinates the model uses, rounded to a metre
haversine(lat1, lon1, lat2, lon2) ==
    CASE <<lat1, lon1>> = <<369710, 274575>> ->
            (CASE <<lat2, lon2>> = <<371059, 274575>> -> 15000
               [] <<lat2, lon2>> = <<373307, 274575>> -> 39997
               [] <<lat2, lon2>> = <<375110, 274575>> -> 60045
               [] <<lat2, lon2>> = <<380502, 274575>> -> 120002
               [] <<lat2, lon2>> = <<3000, 1000>> -> 4952967
               [] <<lat2, lon2>> = <<0, 1000>> -> 4981415)
      [] <<lat1, lon1>> = <<1000, 1000>> ->
            (CASE <<lat2, lon2>> = <<371059, 274575>> -> 4983293
               [] <<lat2, lon2>> = <<373307, 274575>> -> 5002267
               [] <<lat2, lon2>> = <<375110, 274575>> -> 5017515
               [] <<lat2, lon2>> = <<380502, 274575>> -> 5063272
               [] <<lat2, lon2>> = <<3000, 1000>> -> 22239
               [] <<lat2, lon2>> = <<0, 1000>> -> 11119)

\* the `for station in stations` loop from position k on; min_distance is
\* <<>> for float('inf')
RECURSIVE nearest_loop(_, _, _, _, _, _, _)
nearest_loop(stations, lat, lon, max_distance_km, k, nearest, min_distance) ==
    IF k > Len(stations) THEN nearest
    ELSE LET station == stations[k]
             s_lat == num_or(Get(station, "lat"), Get(station, "latitude"))
             s_lon == num_or(Get(station, "lon"), Get(station, "longitude"))
         IN  IF IsNone(s_lat) \/ IsNone(s_lon)
             THEN nearest_loop(stations, lat, lon, max_distance_km, k + 1,
                               nearest, min_distance)
             ELSE LET distance == haversine(lat, lon, Val(s_lat), Val(s_lon))
                  IN  IF /\ (IsNone(min_distance) \/ distance < Val(min_distance))
                         /\ distance <= max_distance_km * 1000
                      THEN nearest_loop(
                               stations, lat, lon, max_distance_km, k + 1,
                               [id |-> str_or(Get(station, "id"), Get(station, "stationId")),
                                name |-> IF "name" \in DOMAIN station THEN station["name"]
                                         ELSE <<"Unknown">>,
                                distance_km |-> Num(PyRound(distance, 100)),
                                lat |-> s_lat, lon |-> s_lon],
                               Num(distance))
                      ELSE nearest_loop(stations, lat, lon, max_distance_km, k + 1,
                                        nearest, min_distance)

find_nearest_station(stations, lat, lon, max_distance_km) ==
    nearest_loop(stations, lat, lon, max_distance_km, 1, None, None)

\* {"available": False, "message": ...}
Unavailable(message) == [available |-> FALSE, message |-> <<message>>]

\* round(wind_ms * MS_TO_KNOTS, 1), wind_ms in whole m/s, in tenths of a knot
station_knots(ms) == PyRound(ms * MS_TO_KNOTS * 10, KnotScale)

measurement_keys(latest) ==
    {"temperature_c" : k \in DOMAIN latest \cap {"temp"}}
    \cup {"wind_knots" : k \in DOMAIN latest \cap {"wind"}}
    \cup {"gust_knots" : k \in DOMAIN latest \cap {"gust"}}
    \cup {"wind_direction" : k \in DOMAIN latest \cap {"windDir"}}
    \cup {"pressure_hpa" : k \in DOMAIN latest \cap {"pressure"}}
    \cup {"humidity" : k \in DOMAIN latest \cap {"humidity", "rh"}}

process_station_data(data, station_info) ==
    LET latest == IF data.json = "list" /\ data.items # <<>>
                  THEN data.items[Len(data.items)] ELSE data
    IN  IF latest.json # "dict" THEN Raise("AttributeError")
        ELSE LET f == latest.fields
             IN  IF \E k \in DOMAIN f \cap {"wind", "gust"} : ~IsNumber(f[k])
                 THEN Raise("TypeError")
                 ELSE [available |-> TRUE,
                       station_name |-> IF "name" \in DOMAIN station_info
                                        THEN station_info["name"] ELSE <<"Unknown">>,
                       distance_km |-> IF "distance_km" \in DOMAIN station_info
                                       THEN station_info["distance_km"] ELSE Num(0),
                       timestamp |-> num_or(Get(f, "ts"), Get(f, "timestamp")),
                       measurements |->
                           [m \in measurement_keys(f) |->
                               CASE m = "temperature_c" -> f["temp"]
                                 [] m = "wind_knots" -> Num(station_knots(Val(f["wind"])))
                                 [] m = "gust_knots" -> Num(station_knots(Val(f["gust"])))
                                 [] m = "wind_direction" -> f["windDir"]
                                 [] m = "pressure_hpa" -> f["pressure"]
                                 [] m = "humidity" ->
                                        num_or(Get(f, "humidity"), Get(f, "rh"))]]

\* The HTTP exchange of one call: `world` holds what each URL answers, a
\* response [status, body] or RequestFailed when requests.get raises.  A
\* function of the module returns its value and the requests it issued.

Returns(result, requests) == [result |-> result, requests |-> requests]

fetch_single_station(api_key, station, world) ==
    LET station_id == str_or(Get(station, "id"), Get(station, "stationId"))
        info == [id |-> station_id,
                 name |-> IF "name" \in DOMAIN station THEN station["name"]
                          ELSE <<"Unknown">>,
                 distance_km |-> IF "distance_km" \in DOMAIN station
                                 THEN station["distance_km"]
                                 ELSE IF "distance" \in DOMAIN station
                                      THEN station["distance"] ELSE Num(0)]
    IN  IF IsNone(station_id) \/ Val(station_id) = ""
        THEN Returns(Unavailable("No station ID found"), <<>>)
        ELSE IF world.data1 = RequestFailed
        THEN Returns(Unavailable("Station fetch error"), <<"data1">>)
        ELSE IF world.data1.status = 200
        THEN Returns(process_station_data(world.data1.body, info), <<"data1">>)
        ELSE IF world.data2 = RequestFailed
        THEN Returns(Unavailable("Station fetch error"), <<"data1", "data2">>)
        ELSE IF world.data2.status = 200
        THEN Returns(process_station_data(world.data2.body, info), <<"data1", "data2">>)
        ELSE Returns(Unavailable("Could not fetch station"), <<"data1", "data2">>)

\* Method 1 (lines 33-46): the value returned, or None to go on
method1(api_key, lat, lon, world) ==
    IF world.nearby.status = 200 /\ world.nearby.body # <<>>
    THEN fetch_single_station(api_key, world.nearby.body[1], world)
    ELSE Returns(None, <<>>)

\* Method 2 (lines 49-57)
method2(api_key, lat, lon, world) ==
    IF world.open.status # 200 THEN Returns(None, <<>>)
    ELSE LET nearest == find_nearest_station(world.open.body, lat, lon,
                                             default_max_distance_km)
         IN  IF nearest = None THEN Returns(None, <<>>)
             ELSE fetch_single_station(api_key, nearest, world)

\* Method 3 (lines 60-71)
method3(api_key, lat, lon, world) ==
    IF world.legacy.status # 200 THEN Returns(None, <<>>)
    ELSE LET nearest == find_nearest_station(world.legacy.body, lat, lon,
                                             default_max_distance_km)
         IN  IF nearest = None THEN Returns(None, <<>>)
             ELSE IF world.data1 = RequestFailed
             THEN Returns(Unavailable("API error"), <<"data1">>)
             ELSE IF world.data1.status = 200
             THEN Returns(process_station_data(world.data1.body, nearest), <<"data1">>)
             ELSE Returns(None, <<"data1">>)

station_run(api_key, lat, lon, world) ==
    IF IsNone(api_key) \/ Val(api_key) = ""
    THEN Returns(Unavailable("Windy API key not configured"), <<>>)
    ELSE IF world.nearby = RequestFailed
    THEN Returns(Unavailable("API error"), <<"nearby">>)
    ELSE LET m1 == method1(api_key, lat, lon, world)
         IN  IF m1.result # None THEN Returns(m1.result, <<"nearby">> \o m1.requests)
    ELSE IF world.open = RequestFailed
    THEN Returns(Unavailable("API error"), <<"nearby", "open">>)
    ELSE LET m2 == method2(api_key, lat, lon, world)
         IN  IF m2.result # None
             THEN Returns(m2.result, <<"nearby", "open">> \o m2.requests)
    ELSE IF world.legacy = RequestFailed
    THEN Returns(Unavailable("API error"), <<"nearby", "open", "legacy">>)
    ELSE LET m3 == method3(api_key, lat, lon, world)
         IN  IF m3.result # None
             THEN Returns(m3.result, <<"nearby", "open", "legacy">> \o m3.requests)
             ELSE Returns(Unavailable("No stations found in Bodrum area"),
                          <<"nearby", "open", "legacy">> \o m3.requests)

fetch_station_data(api_key, lat, lon, world) == station_run(api_key, lat, lon, world).result


(* The station records and readings the Windy endpoints answer with.       *)
(* Seen from LOCATION: A and A2 share one position 15 km away, C and X are *)
(* 40 km away, E 60 km, D 120 km.  Z1 (on the equator) and Z2 are 11 km    *)
(* and 22 km from EquatorRef.                                              *)

Station(id, lat, lon) ==
    [id |-> <<id>>, name |-> <<id>>, lat |-> lat, lon |-> lon]

sA == Station("A", Num(371059), Num(274575))
sA2 == [stationId |-> <<"A2">>, name |-> <<"A2">>,
        latitude |-> Num(371059), longitude |-> Num(274575)]
sC == Station("C", Num(373307), Num(274575))
sE == Station("E", Num(375110), Num(274575))
sD == Station("D", Num(380502), Num(274575))
sN == Station("N", None, Num(274575))
sX == [name |-> <<"X">>, lat |-> Num(373307), lon |-> Num(274575)]
sZ1 == Station("Z1", Num(0), Num(1000))
sZ2 == Station("Z2", Num(3000), Num(1000))

Candidates == {sA, sA2, sC, sE, sD, sN, sX, sZ1, sZ2}

StationLists == UNION {[1..n -> Candidates] : n \in 0..MaxStations}

(* SpecNearest: one call of find_nearest_station *)

InitNearest ==
    /\ source = "nearest"
    /\ payload \in [stations : StationLists, ref : {LOCATION, EquatorRef},
                    max_distance_km : {default_max_distance_km, 2 * default_max_distance_km}]
    /\ out = Pending
    /\ pc = "nearest"
    /\ today = 1 /\ target_date = 1 /\ idx = 1 /\ results = <<>>
    /\ weather_data = <<>> /\ marine_data = Pending
    /\ MATPLOTLIB_AVAILABLE = TRUE
    /\ plt_style = "default"
    /\ weather_keys = WEATHER_MODELS

FindNearest ==
    /\ pc = "nearest" /\ out = Pending
    /\ out' = [nearest |-> find_nearest_station(payload.stations, payload.ref.lat,
                                                payload.ref.lon, payload.max_distance_km)]
    /\ UNCHANGED <<plt_style, weather_keys, MATPLOTLIB_AVAILABLE, today, target_date, source, payload, pc,
                   idx, results, weather_data, marine_data>>

NextNearest == FindNearest

SpecNearest == InitNearest /\ [][NextNearest]_vars

(* SpecStation: one call of fetch_station_data from main *)

FullReading ==
    JDict([ts |-> Num(1700), temp |-> Num(215), wind |-> Num(7), gust |-> Num(9),
           windDir |-> Num(200), pressure |-> Num(1013), rh |-> Num(55)])
EmptyReading == JDict(<<>>)

Readings ==
    {FullReading, EmptyReading,
     JDict([ts |-> Num(1700)]),
     JList(<<>>),
     JList(<<JDict([ts |-> Num(1600), wind |-> Num(3)]), FullReading>>),
     JStr,
     JDict([ts |-> Num(1700), wind |-> NonNumeric]),
     JDict([ts |-> Num(1700), wind |-> Num(7), gust |-> None])}

Response(status, body) == [status |-> status, body |-> body]

Worlds ==
    [nearby : {RequestFailed, Response(500, <<>>)}
              \cup {Response(200, l) : l \in {<<>>, <<sD>>, <<sA, sC>>, <<sX>>}},
     open : {RequestFailed, Response(500, <<>>)}
            \cup {Response(200, l) : l \in {<<sD, sC, sA>>, <<sD>>, <<sX>>}},
     legacy : {RequestFailed, Response(500, <<>>)}
              \cup {Response(200, l) : l \in {<<sC>>, <<sE>>}},
     data1 : {RequestFailed, Response(404, JStr)}
             \cup {Response(200, r) : r \in Readings},
     data2 : {RequestFailed, Response(404, JStr)}
             \cup {Response(200, r) : r \in {FullReading, EmptyReading}}]

InitStation ==
    /\ source = "station"
    /\ payload \in [api_key : {None, <<"KEY">>}, world : Worlds]
    /\ out = Pending
    /\ pc = "station"
    /\ today = 1 /\ target_date = 1 /\ idx = 1 /\ results = <<>>
    /\ weather_data = <<>> /\ marine_data = Pending
    /\ MATPLOTLIB_AVAILABLE = TRUE
    /\ plt_style = "default"
    /\ weather_keys = WEATHER_MODELS

FetchStation ==
    /\ pc = "station" /\ out = Pending
    /\ out' = fetch_station_data(payload.api_key, LOCATION.lat, LOCATION.lon, payload.world)
    /\ UNCHANGED <<plt_style, weather_keys, MATPLOTLIB_AVAILABLE, today, target_date, source, payload, pc,
                   idx, results, weather_data, marine_data>>

NextStation == FetchStation

SpecStation == InitStation /\ [][NextStation]_vars

---------------------------------------------------------------------------
(* Vocabulary of the station properties *)

\* the coordinate a record carries under either of its two keys
Coordinate(station, key, long_key) ==
    IF ~IsNone(Get(station, key)) THEN Get(station, key) ELSE Get(station, long_key)

HasCoordinates(station) ==
    /\ ~IsNone(Coordinate(station, "lat", "latitude"))
    /\ ~IsNone(Coordinate(station, "lon", "longitude"))

DistanceFrom(ref, station) ==
    haversine(ref.lat, ref.lon, Val(Coordinate(station, "lat", "latitude")),
              Val(Coordinate(station, "lon", "longitude")))

\* the positions of the candidates with both coordinates within the radius
Eligible(stations, ref, radius_km) ==
    {i \in 1..Len(stations) :
        HasCoordinates(stations[i]) /\ DistanceFrom(ref, stations[i]) <= radius_km * 1000}

\* the earliest of the eligible candidates at the smallest distance
Winner(stations, ref, radius_km) ==
    CHOOSE i \in Eligible(stations, ref, radius_km) :
        \A j \in Eligible(stations, ref, radius_km) :
            \/ DistanceFrom(ref, stations[i]) < DistanceFrom(ref, stations[j])
            \/ DistanceFrom(ref, stations[i]) = DistanceFrom(ref, stations[j]) /\ i <= j

(* C15 - find_nearest_station returns the candidate with the smallest      *)
(* great-circle distance among the candidates that have both coordinates   *)
(* and lie within the radius, the earliest in the list on a tie, and       *)
(* nothing when no candidate lies within the radius.                       *)
C15_NearestWithinRadius ==
    (pc = "nearest" /\ out # Pending)
        => LET stations == payload.stations
               eligible == Eligible(stations, payload.ref, payload.max_distance_km)
           IN  IF eligible = {} THEN out.nearest = None
               ELSE LET w == stations[Winner(stations, payload.ref, payload.max_distance_km)]
                    IN  /\ out.nearest # None
                        /\ out.nearest.name = w.name
                        /\ out.nearest.distance_km
                             = Num(PyRound(DistanceFrom(payload.ref, w), 100))

Snapshot == pc = "station" /\ out # Pending /\ ~Raised(out)

(* C16 - whichever lookup method supplies the station, fetch_station_data  *)
(* returns available=true only for a station whose distance from the       *)
(* reference coordinate is at most the maximum search radius.              *)
C16_AvailableOnlyWithinRadius ==
    (Snapshot /\ out.available)
        => \E s \in Candidates :
              /\ s.name = out.station_name
              /\ HasCoordinates(s)
              /\ DistanceFrom(LOCATION, s) <= default_max_distance_km * 1000

(* C17 - every snapshot with available=false carries a diagnostic message  *)
(* and no measurement fields, and every snapshot with available=true has   *)
(* at least one field in `measurements`.                                   *)
C17_SnapshotWellFormed ==
    Snapshot
        => IF out.available
           THEN "measurements" \in DOMAIN out /\ DOMAIN out.measurements # {}
           ELSE /\ "message" \in DOMAIN out /\ out.message # <<>>
                /\ "measurements" \notin DOMAIN out

(* C18 - fetch_station_data returns a snapshot and never raises, whatever  *)
(* the API key, the status or transport failure of a request, the station  *)
(* list, the station's identifier and the shape of the reading.            *)
C18_StationNeverRaises ==
    (pc = "station" /\ out # Pending)
        => /\ ~Raised(out)
           /\ "available" \in DOMAIN out
           /\ out.available \in BOOLEAN
           /\ IF out.available THEN "measurements" \in DOMAIN out
              ELSE "message" \in DOMAIN out

---------------------------------------------------------------------------
(* The table rows against the feed they were computed from                 *)

\* the key create_windguru_table reads each row of a model band from
RowKey ==
    [wind |-> "wind_speed_knots", gust |-> "wind_gusts_knots",
     direction |-> "wind_direction_deg", temperature |-> "temperature_c",
     precipitation |-> "precipitation_mm", visibility |-> "visibility_m"]

\* the hourly array of the weather feed each row is about
RowSource ==
    [wind |-> "wind_speed_10m", gust |-> "wind_gusts_10m",
     direction |-> "wind_direction_10m", temperature |-> "temperature_2m",
     precipitation |-> "precipitation", visibility |-> "visibility"]

\* the key process_weather_data writes the row's parameter to
WrittenKey ==
    [wind |-> "wind_speed_knots", gust |-> "wind_gusts_knots",
     direction |-> "wind_direction", temperature |-> "temperature",
     precipitation |-> "precipitation", visibility |-> "visibility"]

\* the same for the rows of the marine band
MarineRowKey ==
    [wave |-> "wave_height_m", wave_direction |-> "wave_direction_deg",
     swell |-> "swell_wave_height_m", swell_direction |-> "swell_wave_direction_deg"]

\* the feeds the entries handed to the renderers were processed from
WeatherFeeds ==
    {MkPayload(weather_hourly_params, Midnight, NoDefect),
     MkPayload(weather_hourly_params, Evening, NoDefect),
     StormPayload}

MarineFeeds ==
    {MkPayload(marine_hourly_params, FullDay, df) :
        df \in {NoDefect,
                [kind |-> "null_even", param |-> "wave_height", lo |-> 0, step |-> 0],
                [kind |-> "all_null", param |-> "wave_height", lo |-> 0, step |-> 0]}}
    \cup {MkPayload(marine_hourly_params, Evening, NoDefect)}

FeedOf(entry) == CHOOSE p \in WeatherFeeds : process_weather_data(p, 1) = entry
MarineFeedOf(entry) == CHOOSE p \in MarineFeeds : process_marine_data(p, 1) = entry

\* the feed's sample of `key` at the i-th selected hour, None when there is none
FeedSample(feed, key, selected, i) ==
    LET arr == GetList(feed["hourly"], key)
    IN  IF i <= Len(selected) /\ selected[i] <= Len(arr) THEN arr[selected[i]] ELSE None

(* C21 - in every table row and every hour column i, a row sequence with   *)
(* no non-null value at position i (null or too short) gives the neutral   *)
(* placeholder without a number, and a wind or gust cell with the value 0  *)
(* stands for a sample that was present in the feed and equal to 0.        *)
C21_ZeroOnlyForZeroSample ==
    TableDrawn
        => \A k \in DOMAIN out.image.patches :
              LET r == out.image.patches[k]
              IN  /\ (r.band # "marine" /\ r.row \in DOMAIN RowKey /\ r.col >= 1)
                        => LET entry == weather_data[r.band]
                               seq == GetList(entry, RowKey[r.row])
                               feed == FeedOf(entry)
                               selected == weather_daytime_indices(FeedTimes(feed), 1)
                               sample == FeedSample(feed, RowSource[r.row], selected, r.col)
                           IN  /\ (r.col > Len(seq) \/ IsNone(seq[r.col]))
                                    => IsNone(r.value) /\ IsNone(r.shown)
                               /\ (r.row \in {"wind", "gust"} /\ r.value = Num(0))
                                    => sample = Num(0)
                  /\ (r.band = "marine" /\ r.row \in DOMAIN MarineRowKey /\ r.col >= 1)
                        => LET seq == GetList(marine_data, MarineRowKey[r.row])
                           IN  (r.col > Len(seq) \/ IsNone(seq[r.col]))
                                  => IsNone(r.value) /\ IsNone(r.shown)

\* the cells of one row of one band that carry a value
ValueCells(patches, band, row) ==
    SelectSeq(patches, LAMBDA r : r.band = band /\ r.row = row /\ r.col >= 1
                                   /\ ~IsNone(r.value))

(* C27 - every row of a model band is read under the key that              *)
(* process_weather_data writes its parameter to: when the entry of a drawn *)
(* model holds a non-null sample of a parameter within the drawn hours,    *)
(* that parameter's row shows at least one value and not only              *)
(* placeholders.                                                           *)
C27_RowsReadWrittenKeys ==
    TableDrawn
        => \A m \in DOMAIN weather_data : \A row \in DOMAIN RowKey :
              LET entry == weather_data[m]
                  n_hours == Len(weather_data[ModelsWithTimes[1]]["times"])
                  written == GetList(entry, WrittenKey[row])
              IN  (/\ has_times(entry)
                   /\ \E i \in 1..Min(n_hours, Len(written)) : ~IsNone(written[i]))
                    => /\ RowKey[row] = WrittenKey[row]
                       /\ ValueCells(out.image.patches, m, row) # <<>>

\* the cells of the 'Saat' row of a band that stand over hour column `col`
HourLabels(patches, band, col) ==
    SelectSeq(patches, LAMBDA r : r.band = band /\ r.row = "hours" /\ r.col = col)

\* the feed's sample of `key` at the timestamp of `date` with hour `hour`
SampleAtHour(feed, key, date, hour) ==
    LET times == FeedTimes(feed)
        arr == GetList(feed["hourly"], key)
        at == {j \in 1..Len(times) : times[j].date = date /\ times[j].hour = hour}
    IN  IF at = {} THEN None
        ELSE LET j == CHOOSE j \in at : TRUE
             IN  IF j <= Len(arr) THEN arr[j] ELSE None

(* C28 - the value drawn in hour column i of a row, in a model band or in  *)
(* the marine band, is the sample whose timestamp has the hour shown in    *)
(* the label of that column: in a model band the i-th timestamp of the     *)
(* model's entry has the labelled hour, in the marine band the value is    *)
(* the feed's sample at the labelled hour.                                 *)
C28_ColumnIsLabelledHour ==
    TableDrawn
        => \A k \in DOMAIN out.image.patches :
              LET r == out.image.patches[k]
                  labels == HourLabels(out.image.patches, r.band, r.col)
              IN  (r.row # "hours" /\ r.col >= 1 /\ ~IsNone(r.value))
                    => /\ labels # <<>>
                       /\ LET hour == Val(labels[1].shown)
                          IN  IF r.band = "marine"
                              THEN r.value = SampleAtHour(MarineFeedOf(marine_data),
                                                          SourceKey[MarineRowKey[r.row]],
                                                          target_date, hour)
                              ELSE LET times == weather_data[r.band]["times"]
                                   IN  r.col <= Len(times) /\ times[r.col].hour = hour

---------------------------------------------------------------------------
(* The chart's series                                                      *)

ChartDrawn == Drawn /\ source = "chart"

\* the key each panel of the chart plots per model
PanelKey ==
    [wind |-> "wind_speed_knots", gusts |-> "wind_gusts_knots",
     direction |-> "wind_direction_deg", temperature |-> "temperature_c"]

\* the colour a model's series has in the chart of that model's entry alone
ColorAlone(m, key) ==
    LET alone == chart_series((m :> weather_data[m]), key,
                              Len(GetList(weather_data[m], key)))
    IN  alone[1].color

(* C22 - the colour of a model's series in the chart is a function of the  *)
(* model identifier alone: in every panel, for every mapping and every     *)
(* order of its entries, a model's series has the colour it has in the     *)
(* chart of that model alone, and two different models never share one.    *)
C22_ColorByModelOnly ==
    ChartDrawn
        => \A panel \in DOMAIN PanelKey :
              LET series == out.image[panel]
              IN  \A k \in DOMAIN series :
                     /\ series[k].color = ColorAlone(series[k].model, PanelKey[panel])
                     /\ \A j \in DOMAIN series :
                           series[j].color = series[k].color
                              => series[j].model = series[k].model

\* a chart of a mapping in reverse order with the series of three models,
\* the first of them the last of WEATHER_MODELS
C22_Witness ==
    /\ ChartDrawn
    /\ weather_keys = Reverse(WEATHER_MODELS)
    /\ Len(out.image.wind) = 3
    /\ out.image.wind[1].model = "gfs_seamless"
    /\ out.image.wind[1].color = "#f39c12"

---------------------------------------------------------------------------
(* One call of each of the three direction functions on one direction:     *)
(* specification SpecDirection                                             *)

InitDirection ==
    /\ source = "direction"
    /\ payload \in [degrees : 0..MaxDegrees]
    /\ out = Pending
    /\ pc = "call"
    /\ today = 1 /\ target_date = 1 /\ idx = 1 /\ results = <<>>
    /\ weather_data = <<>> /\ marine_data = Pending
    /\ MATPLOTLIB_AVAILABLE = TRUE
    /\ plt_style = "default"
    /\ weather_keys = WEATHER_MODELS

CallDirection ==
    /\ pc = "call" /\ source = "direction" /\ out = Pending
    /\ out' = [arrow |-> get_direction_arrow(payload.degrees),
               name |-> visualizer_get_direction_name(payload.degrees),
               marine_name |-> get_direction_name(payload.degrees)]
    /\ UNCHANGED <<plt_style, weather_keys, MATPLOTLIB_AVAILABLE, today, target_date,
                   source, payload, pc, idx, results, weather_data, marine_data>>

NextDirection == CallDirection

SpecDirection == InitDirection /\ [][NextDirection]_vars

\* the position of x in the sequence s of distinct elements
IndexOf(s, x) == CHOOSE k \in 1..Len(s) : s[k] = x

\* the octant (0 = north, clockwise) whose centre is nearest to d degrees
OctantOf(d) == ((2 * d + 45) \div 90) % 8

DirectionCalled == source = "direction" /\ out # Pending

(* C23 - for every direction d in 0..360 the arrow of get_direction_arrow, *)
(* the name of the visualizer's get_direction_name and the name of the     *)
(* marine module's get_direction_name stand at the same index              *)
(* round(d/45) mod 8 in 0..7 of their lists, the index of the octant       *)
(* nearest to d, and 360 gives what 0 gives.                               *)
C23_SameOctantIndex ==
    DirectionCalled
        => LET d == payload.degrees
           IN  /\ out.arrow \in {arrows[k] : k \in 1..8}
               /\ IndexOf(arrows, out.arrow) = OctantOf(d) + 1
               /\ IndexOf(dirs, out.name) = IndexOf(arrows, out.arrow)
               /\ IndexOf(directions, out.marine_name) = IndexOf(arrows, out.arrow)
               /\ OctantOf(d) \in 0..7
               /\ d = 360 => /\ out.arrow = get_direction_arrow(0)
                             /\ out.name = visualizer_get_direction_name(0)
                             /\ out.marine_name = get_direction_name(0)
                             /\ out.arrow = arrows[1]

\* the three functions called on 360 degrees: north, as for 0
C23_Witness ==
    /\ DirectionCalled
    /\ payload.degrees = 360
    /\ out = [arrow |-> "down", name |-> "K", marine_name |-> "N"]

---------------------------------------------------------------------------
(* Candidates on the equator or the prime meridian                         *)

\* a candidate that has both coordinates, one of them 0
HasZeroCoordinate(station) ==
    /\ HasCoordinates(station)
    /\ \/ Val(Coordinate(station, "lat", "latitude")) = 0
       \/ Val(Coordinate(station, "lon", "longitude")) = 0

(* C30 - a candidate whose latitude or longitude is 0 counts as having     *)
(* coordinates: when such a candidate is the nearest one within the        *)
(* radius, find_nearest_station returns it.                                *)
C30_ZeroCoordinateKept ==
    (pc = "nearest" /\ out # Pending)
        => \A i \in 1..Len(payload.stations) :
              LET station == payload.stations[i]
              IN  (/\ HasZeroCoordinate(station)
                   /\ i \in Eligible(payload.stations, payload.ref, payload.max_distance_km)
                   /\ i = Winner(payload.stations, payload.ref, payload.max_distance_km))
                    => /\ out.nearest # None
                       /\ out.nearest.name = station.name
                       /\ out.nearest.lat = Coordinate(station, "lat", "latitude")

---------------------------------------------------------------------------
(* The requests of one fetch_station_data call                             *)

StationCalled == pc = "station" /\ out # Pending

\* the HTTP requests the call issued, in order
RequestsIssued ==
    station_run(payload.api_key, LOCATION.lat, LOCATION.lon, payload.world).requests

ListRequests == <<"nearby", "open", "legacy">>

IsPrefix(s, t) == Len(s) <= Len(t) /\ s = SubSeq(t, 1, Len(s))

\* a list request answered with a station to go on with
YieldsStation(method) ==
    LET response == payload.world[method]
    IN  /\ response # RequestFailed
        /\ response.status = 200
        /\ IF method = "nearby" THEN response.body # <<>>
           ELSE find_nearest_station(response.body, LOCATION.lat, LOCATION.lon,
                                     default_max_distance_km) # None

(* C29 - fetch_station_data issues its list requests in the order nearby,  *)
(* open, legacy and none after the first that yields a station; a later    *)
(* list is requested only when the earlier one answered with a non-200     *)
(* status or without a station; one call issues at most 4 requests, the    *)
(* station's data requests last, and always returns a snapshot.            *)
C29_MethodsInOrder ==
    StationCalled
        => LET requests == RequestsIssued
               lists == SelectSeq(requests, LAMBDA q : q \in {"nearby", "open", "legacy"})
               fetches == SelectSeq(requests, LAMBDA q : q \in {"data1", "data2"})
           IN  /\ ~Raised(out)
               /\ Len(requests) <= 4
               /\ IsPrefix(lists, ListRequests)
               /\ requests = lists \o fetches
               /\ \A k \in 2..Len(lists) :
                     /\ payload.world[lists[k - 1]] # RequestFailed
                     /\ ~YieldsStation(lists[k - 1])

---------------------------------------------------------------------------
(* The steps of fetch_weather_data's loop taken in any order, each model   *)
(* with its own response, while the clock runs: specification SpecAnyOrder *)

TwoDays == [d0 |-> 1, h0 |-> 0, skip |-> 0, n |-> 48]

OrderResponses ==
    {RequestFailed,
     MkPayload(weather_hourly_params, TwoDays, NoDefect),
     MkPayload(weather_hourly_params, FullDay, NoDefect),
     MkPayload(weather_hourly_params, FullDay,
               [kind |-> "null_even", param |-> "temperature_2m", lo |-> 0, step |-> 0])}

ModelSet == {models[i] : i \in 1..Len(models)}

InitAnyOrder ==
    /\ today = 1
    /\ target_date \in {today, today + 1}
    /\ source = "weather"
    /\ payload \in [ModelSet -> OrderResponses]
    /\ out = [clocks |-> <<>>]
    /\ pc = "weather"
    /\ idx = 1
    /\ results = <<>>
    /\ weather_data = <<>>
    /\ marine_data = Pending
    /\ MATPLOTLIB_AVAILABLE = TRUE
    /\ plt_style = "default"
    /\ weather_keys = WEATHER_MODELS

\* the body of `for model in models` (open_meteo_weather.py 42-61) for one
\* model not yet processed; out.clocks keeps what datetime.now() gave
ProcessAnyModel ==
    /\ pc = "weather"
    /\ \E model \in ModelSet \ DOMAIN results :
          LET response == payload[model]
          IN  IF response = RequestFailed
              THEN /\ results' = set_item(results, model, request_error)
                   /\ pc' = pc
              ELSE LET entry == process_weather_data(response, today)
                   IN  IF Raised(entry)
                       THEN /\ pc' = "raised"
                            /\ UNCHANGED results
                       ELSE /\ results' = set_item(results, model, entry)
                            /\ pc' = pc
    /\ out' = [clocks |-> Append(out.clocks, today)]
    /\ UNCHANGED <<plt_style, weather_keys, MATPLOTLIB_AVAILABLE, today, target_date,
                   source, payload, idx, weather_data, marine_data>>

\* the date changes between two requests
MidnightPasses ==
    /\ pc = "weather"
    /\ today < 1 + MaxMidnights
    /\ today' = today + 1
    /\ UNCHANGED <<plt_style, weather_keys, MATPLOTLIB_AVAILABLE, target_date, source,
                   payload, out, pc, idx, results, weather_data, marine_data>>

\* return results (open_meteo_weather.py 63)
AnyOrderReturn ==
    /\ pc = "weather" /\ DOMAIN results = ModelSet
    /\ weather_data' = results
    /\ pc' = "done"
    /\ UNCHANGED <<plt_style, weather_keys, MATPLOTLIB_AVAILABLE, today, target_date,
                   source, payload, out, idx, results, marine_data>>

NextAnyOrder == ProcessAnyModel \/ MidnightPasses \/ AnyOrderReturn

SpecAnyOrder == InitAnyOrder /\ [][NextAnyOrder]_vars

\* fetch_weather_data's loop in the order of `models`, the k-th iteration
\* reading the clock clocks[k]
RECURSIVE sequential_loop(_, _, _, _)
sequential_loop(responses, clocks, k, acc) ==
    IF k > Len(models) THEN acc
    ELSE LET response == responses[models[k]]
         IN  IF response = RequestFailed
             THEN sequential_loop(responses, clocks, k + 1,
                                  set_item(acc, models[k], request_error))
             ELSE LET entry == process_weather_data(response, clocks[k])
                  IN  IF Raised(entry) THEN entry
                      ELSE sequential_loop(responses, clocks, k + 1,
                                           set_item(acc, models[k], entry))

(* C25 - processing the requested models in any order yields the mapping   *)
(* the sequential loop yields from the same responses in the same time:    *)
(* the step of a model depends on that model's response only.              *)
C25_OrderIndependent ==
    (source = "weather" /\ pc = "done" /\ "clocks" \in DOMAIN out)
        => weather_data = sequential_loop(payload, out.clocks, 1, <<>>)

---------------------------------------------------------------------------
(* One run of main (src/main.py 32-205): specification SpecMain            *)

\* the parameters of the functions main calls, in order, and how many of
\* them have no default
Signatures ==
    [fetch_weather_data |-> [params |-> <<"lat", "lon", "models">>, required |-> 3],
     fetch_marine_data |-> [params |-> <<"lat", "lon", "target_date">>, required |-> 2],
     fetch_station_data |-> [params |-> <<"api_key", "lat", "lon">>, required |-> 3],
     create_windguru_chart |->
        [params |-> <<"weather_data", "marine_data", "target_date">>, required |-> 3],
     create_windguru_table |->
        [params |-> <<"weather_data", "marine_data", "target_date">>, required |-> 3],
     create_station_infographic |->
        [params |-> <<"station_data", "location">>, required |-> 2],
     analyze_weather |->
        [params |-> <<"weather_data", "marine_data", "station_data", "api_key", "model",
                      "system_prompt", "location_name">>, required |-> 7],
     send_report_email |->
        [params |-> <<"api_key", "to_email", "from_email", "location_name", "analysis",
                      "raw_data", "chart_bytes", "table_bytes", "subject",
                      "forecast_day">>, required |-> 5],
     print |-> [params |-> <<"text">>, required |-> 0]]

Call(stage, fn, positional, keywords) ==
    [stage |-> stage, fn |-> fn, positional |-> positional, keywords |-> keywords]

\* the calls of main in program order; the output stage prints and saves in
\* test or no-email mode and sends the e-mail otherwise
main_calls(test_mode, no_email) ==
    <<Call("weather fetch", "fetch_weather_data", 0,
           {"lat", "lon", "models", "target_date"}),
      Call("marine fetch", "fetch_marine_data", 0, {"lat", "lon", "target_date"}),
      Call("station fetch", "fetch_station_data", 0, {"api_key", "lat", "lon"}),
      Call("chart", "create_windguru_chart", 3, {}),
      Call("table", "create_windguru_table", 3, {}),
      Call("station infographic", "create_station_infographic", 2, {}),
      Call("analysis", "analyze_weather", 0,
           {"weather_data", "marine_data", "station_data", "api_key", "model",
            "system_prompt", "location_name", "forecast_day", "target_date"}),
      IF test_mode \/ no_email
      THEN Call("output", "print", 1, {})
      ELSE Call("output", "send_report_email", 0,
                {"api_key", "to_email", "from_email", "location_name", "analysis",
                 "raw_data", "chart_bytes", "table_bytes", "station_bytes",
                 "forecast_day"})>>

\* Python's binding of a call's arguments to the parameters of the function
accepts(call) ==
    LET sig == Signatures[call.fn]
        names == {sig.params[i] : i \in 1..Len(sig.params)}
        by_position == {sig.params[i] : i \in 1..Min(call.positional, Len(sig.params))}
    IN  /\ call.positional <= Len(sig.params)
        /\ call.keywords \subseteq names
        /\ call.keywords \cap by_position = {}
        /\ \A i \in 1..sig.required : sig.params[i] \in by_position \cup call.keywords

Ended(stages, outcome) == [stages |-> stages, outcome |-> outcome]

\* what a stage whose call was accepted does to the run: "" to go on, the
\* exception that leaves main, or the exit status of sys.exit
stage_outcome(call, world) ==
    CASE call.stage = "weather fetch" /\ world.weather = "TypeError" -> "TypeError"
      [] call.stage = "station fetch" /\ world.station = "AttributeError" -> "AttributeError"
      [] call.fn = "send_report_email" /\ world.email = "failed" -> "exit 1"
      [] OTHER -> ""

RECURSIVE main_from(_, _, _, _)
main_from(calls, k, world, started) ==
    IF k > Len(calls) THEN Ended(started, "done")
    ELSE LET call == calls[k]
             stages == Append(started, call.stage)
         IN  IF ~accepts(call) THEN Ended(stages, "TypeError")
             ELSE IF stage_outcome(call, world) # ""
             THEN Ended(stages, stage_outcome(call, world))
             ELSE main_from(calls, k + 1, world, stages)

main(test_mode, no_email, forecast_day, world) ==
    main_from(main_calls(test_mode, no_email), 1, world, <<>>)

MainWorlds ==
    [weather : {"entries", "errors", "TypeError"},
     marine : {"entry", "error"},
     station : {"available", "unavailable", "AttributeError"},
     analysis : {"text", "HATA"},
     email : {"sent", "failed"}]

InitMain ==
    /\ today \in {1, 2}
    /\ target_date = today
    /\ source = "main"
    /\ payload \in [test_mode : BOOLEAN, no_email : BOOLEAN,
                    forecast_day : {"today", "tomorrow"}, world : MainWorlds]
    /\ out = Pending
    /\ pc = "main"
    /\ idx = 1 /\ results = <<>>
    /\ weather_data = <<>> /\ marine_data = Pending
    /\ MATPLOTLIB_AVAILABLE = TRUE
    /\ plt_style = "default"
    /\ weather_keys = WEATHER_MODELS

RunMain ==
    /\ pc = "main" /\ out = Pending
    /\ target_date' = IF payload.forecast_day = "tomorrow" THEN today + 1 ELSE today
    /\ out' = main(payload.test_mode, payload.no_email, payload.forecast_day,
                   payload.world)
    /\ UNCHANGED <<plt_style, weather_keys, MATPLOTLIB_AVAILABLE, today, source,
                   payload, pc, idx, results, weather_data, marine_data>>

NextMain == RunMain

SpecMain == InitMain /\ [][NextMain]_vars

MainEnded == pc = "main" /\ out # Pending

StageOrder ==
    <<"weather fetch", "marine fetch", "station fetch", "chart", "table",
      "station infographic", "analysis", "output">>

(* C26 - a run of main in test or no-email mode, for today or tomorrow and *)
(* with any combination of sources failing, runs the stages weather fetch, *)
(* marine fetch, station fetch, chart, table, station infographic,         *)
(* analysis, output in this order, every call with arguments its function  *)
(* accepts, and ends normally after the output stage.                      *)
C26_StagesRunToOutput ==
    (MainEnded /\ (payload.test_mode \/ payload.no_email))
        => /\ out.stages = StageOrder
           /\ out.outcome = "done"
           /\ \A k \in 1..Len(StageOrder) :
                 accepts(main_calls(payload.test_mode, payload.no_email)[k])

---------------------------------------------------------------------------
(* The station infographic (visualizer.py 453-570)                         *)

\* f"{measurements.get(key, '--')}": the number, or the placeholder '--'
card_value(measurements, key) ==
    IF key \in DOMAIN measurements THEN [shown |-> measurements[key]]
    ELSE [placeholder |-> "--"]

\* _draw_metric_card(ax, title, value, accent_color, bg_color)
_draw_metric_card(title, value, accent_color, bg_color) ==
    [title |-> title, value |-> value, accent_color |-> accent_color,
     bg_color |-> bg_color, title_color |-> "white", value_color |-> "#2C3E50"]

\* get_wind_color(x) if isinstance(x, (int, float)) else `otherwise`; the
\* measurement is in tenths of a knot
card_wind_color(measurements, key, otherwise) ==
    IF key \in DOMAIN measurements /\ ~IsNone(measurements[key])
    THEN get_wind_color(Val(measurements[key]) * (KnotScale \div 10))
    ELSE otherwise

create_station_infographic(station_data, location) ==
    IF ~MATPLOTLIB_AVAILABLE THEN None
    ELSE IF ~("available" \in DOMAIN station_data /\ station_data["available"]) THEN None
    ELSE LET measurements == IF "measurements" \in DOMAIN station_data
                             THEN station_data["measurements"] ELSE <<>>
         IN  IF DOMAIN measurements = {} THEN None
             ELSE [title |-> "ANLIK HAVA DURUMU",
                   station_name |-> IF "station_name" \in DOMAIN station_data
                                    THEN station_data["station_name"] ELSE <<"Istasyon">>,
                   obs_time_str |-> IF "observation_time" \in DOMAIN station_data
                                    THEN station_data["observation_time"] ELSE None,
                   cards |->
                     <<_draw_metric_card("SICAKLIK", card_value(measurements, "temperature_c"),
                                         "#FF5722", "#FBE9E7"),
                       _draw_metric_card("RUZGAR", card_value(measurements, "wind_knots"),
                                         "#2196F3",
                                         card_wind_color(measurements, "wind_knots", "#E3F2FD")),
                       _draw_metric_card(
                           "YON",
                           IF "wind_direction" \in DOMAIN measurements
                              /\ ~IsNone(measurements["wind_direction"])
                           THEN [arrow |-> get_direction_arrow(Val(measurements["wind_direction"])),
                                 shown |-> measurements["wind_direction"]]
                           ELSE card_value(measurements, "wind_direction"),
                           "#9C27B0", "#F3E5F5"),
                       _draw_metric_card(
                           "HAMLE",
                           IF "gust_knots" \in DOMAIN measurements
                           THEN card_value(measurements, "gust_knots")
                           ELSE [placeholder |-> "Yok"],
                           "#E91E63",
                           IF "gust_knots" \in DOMAIN measurements
                           THEN card_wind_color(measurements, "gust_knots", "#FFEBEE")
                           ELSE "#FAFAFA"),
                       _draw_metric_card("BASINC", card_value(measurements, "pressure_hpa"),
                                         "#00BCD4", "#E0F7FA"),
                       _draw_metric_card("GORUS", card_value(measurements, "visibility_km"),
                                         "#4CAF50", "#E8F5E9"),
                       _draw_metric_card("CIG NOKTASI", card_value(measurements, "dewpoint_c"),
                                         "#607D8B", "#ECEFF1"),
                       _draw_metric_card("ISTASYON", [icao |-> "LTFE", wmo |-> "17290"],
                                         "#795548", "#EFEBE9")>>,
                   footer |-> location]

---------------------------------------------------------------------------
(* Render calls of one process, in any order: specification SpecRender     *)

RenderWeather ==
    {(WEATHER_MODELS[1] :> request_error),
     (WEATHER_MODELS[1] :> process_weather_data(StormPayload, 1)),
     (WEATHER_MODELS[1] :> process_weather_data(StormPayload, 1))
        @@ (WEATHER_MODELS[2]
              :> process_weather_data(MkPayload(weather_hourly_params, Evening, NoDefect), 1))}

RenderMarine ==
    {request_error,
     process_marine_data(MkPayload(marine_hourly_params, FullDay, NoDefect), 1)}

StationInfo == [id |-> <<"A">>, name |-> <<"A">>, distance_km |-> Num(150)]

RenderStation ==
    {Unavailable("No stations found in Bodrum area"),
     process_station_data(FullReading, StationInfo),
     process_station_data(JDict([ts |-> Num(1700), temp |-> Num(215)]), StationInfo),
     process_station_data(JDict([ts |-> Num(1700)]), StationInfo)}

Rendering(fn, image) == [fn |-> fn, image |-> image]

InitRender ==
    /\ source = "render"
    /\ weather_data \in RenderWeather
    /\ marine_data \in RenderMarine
    /\ payload \in [station_data : RenderStation]
    /\ MATPLOTLIB_AVAILABLE \in BOOLEAN
    /\ plt_style = "default"
    /\ weather_keys = WEATHER_MODELS
    /\ results = <<>>
    /\ out = Pending
    /\ pc = "calls"
    /\ today = 1 /\ target_date = 1 /\ idx = 1

RenderChart ==
    /\ pc = "calls" /\ source = "render" /\ Len(results) < MaxRenders
    /\ LET image == create_windguru_chart(weather_data, marine_data, target_date)
       IN  /\ out' = [image |-> image]
           /\ results' = Append(results, Rendering("chart", image))
    /\ plt_style' = style_after_chart(plt_style)
    /\ UNCHANGED <<weather_keys, MATPLOTLIB_AVAILABLE, today, target_date, source,
                   payload, pc, idx, weather_data, marine_data>>

RenderTable ==
    /\ pc = "calls" /\ source = "render" /\ Len(results) < MaxRenders
    /\ LET image == create_windguru_table(weather_data, marine_data, target_date)
       IN  /\ out' = [image |-> image]
           /\ results' = Append(results, Rendering("table", image))
    /\ UNCHANGED <<plt_style, weather_keys, MATPLOTLIB_AVAILABLE, today, target_date,
                   source, payload, pc, idx, weather_data, marine_data>>

RenderInfographic ==
    /\ pc = "calls" /\ source = "render" /\ Len(results) < MaxRenders
    /\ LET image == create_station_infographic(payload.station_data, LOCATION)
       IN  /\ out' = [image |-> image]
           /\ results' = Append(results, Rendering("infographic", image))
    /\ UNCHANGED <<plt_style, weather_keys, MATPLOTLIB_AVAILABLE, today, target_date,
                   source, payload, pc, idx, weather_data, marine_data>>

NextRender == RenderChart \/ RenderTable \/ RenderInfographic

SpecRender == InitRender /\ [][NextRender]_vars

(* C24 - calling a render function twice on the same input returns the     *)
(* same output whatever render calls came before or in between: the style  *)
(* create_windguru_chart selects stays in force in the process but changes *)
(* the result of no later call.                                            *)
C24_RenderRepeatable ==
    (source = "render")
        => \A i \in DOMAIN results : \A j \in DOMAIN results :
              results[i].fn = results[j].fn => results[i].image = results[j].image

\* a table drawn under the default style, then a chart, then the same table
\* drawn under the style the chart left behind
C24_Witness ==
    /\ source = "render"
    /\ Len(results) = 3
    /\ results[1].fn = "table" /\ results[1].image # None
    /\ results[2].fn = "chart" /\ results[2].image # None
    /\ results[3].fn = "table" /\ results[3].image = results[1].image
    /\ plt_style = "dark_background"

===========================================================================
